---------------------------- MODULE Spec2Model ----------------------------
(***************************************************************************)
(* A model of des_chan's network-graph / conflict-graph engine:            *)
(*   src/graph.py                     Graph, ConflictGraphVertex,          *)
(*                                    ConflictGraph                        *)
(*   src/interference/two_hop.py      binary two-hop interference model    *)
(*   src/interference/two_hop_frac.py fractional two-hop interference model*)
(*   src/interference/co.py           channel-occupancy interference model *)
(*                                                                         *)
(* Python values are modelled as tagged records (None, int, str, float),   *)
(* a dict as a function whose DOMAIN is its key set, a raised exception as *)
(* a result record naming the exception.  The enumeration order of a dict  *)
(* or set (CPython's hash order) is a sequence: fixed where the result     *)
(* does not depend on it, chosen nondeterministically where it does.       *)
(***************************************************************************)
EXTENDS Integers, Sequences, FiniteSets, TLC

(***************************************************************************)
(* Bounds of the model.                                                    *)
(***************************************************************************)
\* largest finite distance a Graph of SpecGraph may hold: remove_vertex keeps
\* the distances that ran through the removed vertex, so distances grow
\* without limit when vertices are removed and added again
MaxDistance == 3

\* sys.maxint, the "no path" distance of add_vertex.  Python promotes
\* maxint + maxint to a long, so no sum of two distances overflows; the
\* model uses 2^30 - 1, the largest value whose double is a TLC integer.
maxint == 1073741823

\* every vertex name of the model, in a fixed order
VertexNames == <<"a", "b", "c", "d", "e">>

\* the vertex names a Graph of SpecGraph may hold
Vertices == {"a", "b", "c"}

VARIABLES
    G,          \* SpecGraph: the Graph object, [values, distances]
    pending,    \* SpecGraph: a set_edge_value(.., update=False) is not yet
                \*            followed by update_distances()
    network_graph,  \* the network graph: a Graph whose edge values are channels
    nw_order,   \* the order in which the network graph's vertex set is
                \* enumerated; it stays the same while the vertex set does
    co_cache,   \* the module globals co.node_id and co.cot_max
    database,   \* what des_db._raw_query returns: [nodes, results]
    conflict_graph,  \* SpecCG: the ConflictGraph object bound to network_graph
    calls,      \* SpecCG: the number of set_channel and update calls so far;
                \* SpecCO: the number of get_interference calls so far
    inits,      \* SpecCO: the number of times co.init() has run so far
    file,       \* the text of the file a Graph was written to
    conn_cnt,   \* SpecEtx: the class attribute EtxIpcFactory.conn_cnt
    connectors, \* SpecEtx: for each _query_host call, its factory, its
                \*          connector and its timeout call
    discoveries,  \* SpecEtx: for each get_network_graph call, its Deferred
                  \*          and its Graph
    last        \* the last call made by the driver and its outcome

vars == <<G, pending, network_graph, nw_order, co_cache, database,
          conflict_graph, calls, inits, file, conn_cnt, connectors, discoveries,
          last>>

(***************************************************************************)
(* Python values.                                                          *)
(***************************************************************************)
None == [t |-> "None"]

PyInt(n) == [t |-> "int", n |-> n]

\* a str is the sequence of its characters
PyStr(s) == [t |-> "str", s |-> s]

PyFalse == [t |-> "bool", b |-> FALSE]

\* Python's truth value: None, False, 0 and "" are false
Truthy(v) ==
    CASE v.t = "None" -> FALSE
      [] v.t = "bool" -> v.b
      [] v.t = "int"  -> v.n # 0
      [] v.t = "str"  -> v.s # <<>>
      [] v.t = "float" -> v.num # 0
      [] OTHER -> TRUE

Min(x, y) == IF x <= y THEN x ELSE y

\* what a call gives back: a value, or the exception it raised
Return(v) == [exc |-> "", value |-> v]

Raise(e) == [exc |-> e, value |-> None]

\* dict[k] = x
DictSet(d, k, x) == (k :> x) @@ d

\* del dict[k]
DictDel(d, k) == [x \in DOMAIN d \ {k} |-> d[x]]

\* the elements of the sequence ord, in its order, that are in S
Enum(S, ord) == SelectSeq(ord, LAMBDA x : x \in S)

(***************************************************************************)
(* class Graph.  A Graph is [values, distances], both dicts of dicts.      *)
(***************************************************************************)
\* Graph.__init__() with no vertices
EmptyGraph == [values |-> << >>, distances |-> << >>]

get_vertices(g) == DOMAIN g.values

get_edge_value(g, edge) == g.values[edge[1]][edge[2]]

get_distance(g, v1, v2) == g.distances[v1][v2]

\* distances[v1][v2] = d; distances[v2][v1] = d
set_distance(g, v1, v2, d) ==
    LET d1 == [g.distances EXCEPT ![v1] = DictSet(@, v2, d)]
        d2 == [d1 EXCEPT ![v2] = DictSet(@, v1, d)]
    IN  [g EXCEPT !.distances = d2]

\* the pairs (v1, v2) the triangular double loop of get_edges, copy and
\* update_edges visits: v1 in enumeration order, v2 every vertex not
\* yet removed from remaining_vertices
RECURSIVE TrianglePairs(_)
TrianglePairs(ord) ==
    IF ord = << >> THEN << >>
    ELSE [i \in 1..Len(ord) |-> <<ord[1], ord[i]>>] \o TrianglePairs(Tail(ord))

\* the place of v in the sequence ord
Pos(ord, v) == CHOOSE i \in 1..Len(ord) : ord[i] = v

\* One pass of the Floyd-Warshall loop, for a fixed k.  The loop visits each
\* unordered pair once, as (v1, v2) with v1 enumerated first, and writes
\* min(d[v1][v2], d[v1][k] + d[k][v2]) to both directions.  No distance is
\* negative, so the pass leaves row k and column k as they are
\* (min(d[v][k], d[v][k] + d[k][k]) = d[v][k]): every pair reads the
\* distances the pass started with, and the in-place loop is this one
\* assignment.
fw_pass(g, k, ord) ==
    LET d == g.distances
    IN  [g EXCEPT !.distances =
            [x \in DOMAIN d |-> [y \in DOMAIN d |->
                LET v1 == IF Pos(ord, x) <= Pos(ord, y) THEN x ELSE y
                    v2 == IF Pos(ord, x) <= Pos(ord, y) THEN y ELSE x
                IN  Min(d[v1][v2], d[v1][k] + d[k][v2])]]]

RECURSIVE fw_loop(_, _, _)
fw_loop(g, ks, ord) ==
    IF ks = << >> THEN g
    ELSE fw_loop(fw_pass(g, ks[1], ord), Tail(ks), ord)

\* Graph.update_distances.  The result does not depend on the order in
\* which the vertex set is enumerated, so the model enumerates in the order
\* of VertexNames.
update_distances(g) ==
    LET ord == Enum(get_vertices(g), VertexNames)
    IN  fw_loop(g, ord, ord)

\* a set_edge_value that takes the value of the edge for its length
set_edge_value_weighted(g, edge, value, update) ==
    LET v1 == edge[1]
        v2 == edge[2]
        w1 == [g.values EXCEPT ![v1] = DictSet(@, v2, value)]
        w2 == [w1 EXCEPT ![v2] = DictSet(@, v1, value)]
        g1 == [g EXCEPT !.values = w2]
    IN  IF Truthy(value)
        THEN LET g2 == set_distance(g1, v1, v2, IF value.t = "int" THEN value.n ELSE 1)
             IN  IF update THEN update_distances(g2) ELSE g2
        ELSE g1

\* Graph.set_edge_value(edge, value, update)
set_edge_value(g, edge, value, update) ==
    LET v1 == edge[1]
        v2 == edge[2]
        w1 == [g.values EXCEPT ![v1] = DictSet(@, v2, value)]
        w2 == [w1 EXCEPT ![v2] = DictSet(@, v1, value)]
        g1 == [g EXCEPT !.values = w2]
    IN  IF Truthy(value)
        THEN LET g2 == set_distance(g1, v1, v2, 1)
             IN  IF update THEN update_distances(g2) ELSE g2
        ELSE g1

\* an add_vertex that sets up the rows of new_vertex whether or not the
\* graph holds it
add_vertex_unchecked(g, new_vertex) ==
    LET vs == get_vertices(g) \cup {new_vertex}
    IN  [values |->
            [v1 \in vs |->
                IF v1 = new_vertex THEN [v2 \in vs |-> None]
                ELSE DictSet(g.values[v1], new_vertex, None)],
         distances |->
            [v1 \in vs |->
                IF v1 = new_vertex
                THEN [v2 \in vs |-> IF v2 = new_vertex THEN 0 ELSE maxint]
                ELSE DictSet(g.distances[v1], new_vertex, maxint)]]

\* Graph.add_vertex: a new row in both dicts, then for every vertex
\* (new_vertex included) the value None and the distance maxint, last the
\* distance 0 of new_vertex to itself
add_vertex(g, new_vertex) ==
    IF new_vertex \in get_vertices(g) THEN g
    ELSE LET vs == get_vertices(g) \cup {new_vertex}
         IN  [values |->
                [v1 \in vs |->
                    IF v1 = new_vertex THEN [v2 \in vs |-> None]
                    ELSE DictSet(g.values[v1], new_vertex, None)],
              distances |->
                [v1 \in vs |->
                    IF v1 = new_vertex
                    THEN [v2 \in vs |-> IF v2 = new_vertex THEN 0 ELSE maxint]
                    ELSE DictSet(g.distances[v1], new_vertex, maxint)]]

\* a remove_vertex that deletes the rows of vertex and leaves its entries
\* in the rows of the other vertices
remove_vertex_rows(g, vertex) ==
    LET vs == get_vertices(g) \ {vertex}
    IN  [values    |-> [v \in vs |-> g.values[v]],
         distances |-> [v \in vs |-> g.distances[v]]]

\* Graph.remove_vertex, for a vertex of the graph
remove_vertex(g, vertex) ==
    LET vs == get_vertices(g) \ {vertex}
    IN  [values    |-> [v \in vs |-> DictDel(g.values[v], vertex)],
         distances |-> [v \in vs |-> DictDel(g.distances[v], vertex)]]

\* Graph.set_edge_value(edge, value, update) for any two names: what the
\* call raises and the graph it leaves.  self.values[v1][v2] = value is
\* done when self.values[v2] raises the KeyError.
Graph_set_edge_value(g, edge, value, update) ==
    IF edge[1] \notin DOMAIN g.values THEN [exc |-> "KeyError", g |-> g]
    ELSE IF edge[2] \notin DOMAIN g.values
         THEN [exc |-> "KeyError",
               g |-> [g EXCEPT !.values[edge[1]] = DictSet(@, edge[2], value)]]
         ELSE [exc |-> "", g |-> set_edge_value(g, edge, value, update)]

\* Graph.remove_vertex(vertex) for any name: del self.values[vertex] raises
\* before anything is deleted
Graph_remove_vertex(g, vertex) ==
    IF vertex \notin DOMAIN g.values THEN [exc |-> "KeyError", g |-> g]
    ELSE [exc |-> "", g |-> remove_vertex(g, vertex)]

\* Graph.get_edge_value(edge) for any two names
Graph_get_edge_value(g, edge) ==
    IF edge[1] \notin DOMAIN g.values THEN Raise("KeyError")
    ELSE IF edge[2] \notin DOMAIN g.values[edge[1]] THEN Raise("KeyError")
    ELSE Return(get_edge_value(g, edge))

\* Graph.get_distance(v1, v2) for any two names: the distance as a Python
\* int
Graph_get_distance(g, v1, v2) ==
    IF v1 \notin DOMAIN g.distances THEN Raise("KeyError")
    ELSE IF v2 \notin DOMAIN g.distances[v1] THEN Raise("KeyError")
    ELSE Return(PyInt(get_distance(g, v1, v2)))

\* a get_edges that keeps both keys of an edge whatever get_all is
get_edges_both(g, ord, get_all) ==
    LET pairs == {<<v1, v2>> : v1 \in get_vertices(g), v2 \in get_vertices(g)}
        keys  == {e \in pairs : Truthy(get_edge_value(g, e))}
    IN  [e \in keys |-> get_edge_value(g, e)]

\* Graph.get_edges(get_all): the dict edge -> value of the truthy values.
\* ord is the order in which the vertex set is enumerated: without get_all
\* the key of an undirected edge is (v1, v2) with v1 enumerated first.
get_edges(g, ord, get_all) ==
    LET vs    == Enum(get_vertices(g), ord)
        pairs == IF get_all
                 THEN {<<v1, v2>> : v1 \in get_vertices(g), v2 \in get_vertices(g)}
                 ELSE {<<vs[q[1]], vs[q[2]]>> :
                          q \in {p \in (DOMAIN vs) \X (DOMAIN vs) : p[1] <= p[2]}}
        keys  == {e \in pairs : Truthy(get_edge_value(g, e))}
    IN  [e \in keys |-> get_edge_value(g, e)]

\* a set as a sequence, in some fixed order
RECURSIVE SetToSeq(_)
SetToSeq(S) ==
    IF S = {} THEN << >>
    ELSE LET x == CHOOSE y \in S : TRUE IN <<x>> \o SetToSeq(S \ {x})

RECURSIVE add_vertices(_, _)
add_vertices(g, vs) ==
    IF vs = << >> THEN g ELSE add_vertices(add_vertex(g, vs[1]), Tail(vs))

\* Graph(vertices)
NewGraph(vertices) == add_vertices(EmptyGraph, SetToSeq(vertices))

RECURSIVE set_edge_values(_, _, _)
set_edge_values(g, edges, es) ==
    IF es = << >> THEN g
    ELSE set_edge_values(set_edge_value(g, es[1], edges[es[1]], FALSE),
                         edges, Tail(es))

\* the orders in which a set can be enumerated: the sequences that hold
\* every element of S once
Orders(S) ==
    {f \in [1..Cardinality(S) -> S] :
        \A i \in DOMAIN f, j \in DOMAIN f : f[i] = f[j] => i = j}

\* the loop of copy: g.set_edge_value((v1, v2), value), with the default
\* update=True, then g.set_distance(v1, v2, distance)
RECURSIVE copy_pairs(_, _, _)
copy_pairs(g, self, pairs) ==
    IF pairs = << >> THEN g
    ELSE LET v1 == pairs[1][1]
             v2 == pairs[1][2]
             g1 == set_edge_value(g, <<v1, v2>>, get_edge_value(self, <<v1, v2>>), TRUE)
         IN  copy_pairs(set_distance(g1, v1, v2, get_distance(self, v1, v2)),
                        self, Tail(pairs))

\* Graph.copy(): ord is the order in which the vertex set is enumerated
copy(g, ord) ==
    copy_pairs(NewGraph(get_vertices(g)), g, TrianglePairs(Enum(get_vertices(g), ord)))

\* the loop of copy_fast over the items of self.get_edges():
\* g.set_edge_value((v1, v2), value, update=False), then
\* g.set_distance(v1, v2, distance)
RECURSIVE copy_fast_edges(_, _, _)
copy_fast_edges(g, self, es) ==
    IF es = << >> THEN g
    ELSE LET v1 == es[1][1]
             v2 == es[1][2]
             g1 == set_edge_value(g, <<v1, v2>>, get_edge_value(self, <<v1, v2>>), FALSE)
         IN  copy_fast_edges(set_distance(g1, v1, v2, get_distance(self, v1, v2)),
                             self, Tail(es))

\* Graph.copy_fast(): ord is the order in which the vertex set is enumerated
copy_fast(g, ord) ==
    copy_fast_edges(NewGraph(get_vertices(g)), g,
                    SetToSeq(DOMAIN get_edges(g, ord, FALSE)))

\* a merge that ends without update_distances()
merge_no_update(g, h) ==
    LET g1    == add_vertices(g, SetToSeq(get_vertices(h) \ get_vertices(g)))
        edges == get_edges(h, VertexNames, FALSE)
    IN  set_edge_values(g1, edges, SetToSeq(DOMAIN edges))

\* Graph.merge(G): the writes are symmetric, so the result does not
\* depend on which key get_edges gives an edge of h
merge(g, h) ==
    LET g1    == add_vertices(g, SetToSeq(get_vertices(h) \ get_vertices(g)))
        edges == get_edges(h, VertexNames, FALSE)
    IN  update_distances(set_edge_values(g1, edges, SetToSeq(DOMAIN edges)))

\* the __main__ block: Graph(["a", .., "e"]) and set_edge_value((x, y), 40)
\* along the path, each with the default update=True
MainGraph ==
    LET g0 == NewGraph({VertexNames[i] : i \in 1..Len(VertexNames)})
        g1 == set_edge_value(g0, <<"a", "b">>, PyInt(40), TRUE)
        g2 == set_edge_value(g1, <<"b", "c">>, PyInt(40), TRUE)
        g3 == set_edge_value(g2, <<"c", "d">>, PyInt(40), TRUE)
    IN  set_edge_value(g3, <<"d", "e">>, PyInt(40), TRUE)

(***************************************************************************)
(* SpecGraph: a driver calling the public operations of one Graph.         *)
(***************************************************************************)
\* the values a driver writes to an edge: None deletes it
EdgeValues == {None, PyInt(40)}

\* the pairs a driver names in set_edge_value: any two different names, and
\* a with itself
EdgePairs == {p \in Vertices \X Vertices : p[1] # p[2]} \cup {<<"a", "a">>}

\* Graph(V), a batch of set_edge_value(e, 40, False) for the edges E, then
\* update_distances()
BuiltGraph(V, E) ==
    update_distances(set_edge_values(NewGraph(V), [e \in E |-> PyInt(40)], SetToSeq(E)))

\* the graphs a driver merges in: two vertices with or without their edge,
\* and three vertices with one or two edges
MergeGraphs ==
    UNION {{BuiltGraph(V, E) :
                E \in {F \in SUBSET ({<<"a", "b">>, <<"b", "c">>, <<"a", "c">>} \cap (V \X V)) :
                            Cardinality(F) \in {Cardinality(V) - 2, Cardinality(V) - 1}}} :
           V \in {W \in SUBSET Vertices : Cardinality(W) >= 2}}

\* the bound on the finite distances
Bounded(g) ==
    \A v1 \in get_vertices(g), v2 \in get_vertices(g) :
        get_distance(g, v1, v2) <= MaxDistance \/ get_distance(g, v1, v2) = maxint

InitGraph ==
    /\ G = EmptyGraph
    /\ pending = FALSE
    /\ network_graph = EmptyGraph
    /\ nw_order = << >>
    /\ co_cache = << >>
    /\ database = << >>
    /\ conflict_graph = None
    /\ calls = 0
    /\ discoveries = << >>
    /\ connectors = << >>
    /\ conn_cnt = 0
    /\ inits = 0
    /\ file = None
    /\ last = [op |-> "init"]

AddVertex(v) ==
    /\ G' = add_vertex(G, v)
    /\ last' = [op |-> "add_vertex", v |-> v, exc |-> ""]
    /\ UNCHANGED <<pending, network_graph, nw_order, co_cache, database,
                   conflict_graph, calls, file, inits,
                   conn_cnt, connectors, discoveries>>

\* remove_vertex of any name: a name the graph does not hold raises
RemoveVertex(v) ==
    /\ G' = Graph_remove_vertex(G, v).g
    /\ last' = [op |-> "remove_vertex", v |-> v, exc |-> Graph_remove_vertex(G, v).exc]
    /\ UNCHANGED <<pending, network_graph, nw_order, co_cache, database,
                   conflict_graph, calls, file, inits,
                   conn_cnt, connectors, discoveries>>

\* set_edge_value on any two names.  A write with update=False opens a
\* batch that update_distances() closes; a falsy value runs no
\* update_distances, whatever the update flag; a call that raises has
\* written no distance.
SetEdgeValue(v1, v2, value, update) ==
    \E r \in {Graph_set_edge_value(G, <<v1, v2>>, value, update)} :
        /\ G' = r.g
        /\ Bounded(G')
        /\ pending' = IF r.exc # "" THEN pending
                      ELSE IF ~update THEN TRUE
                      ELSE IF Truthy(value) THEN FALSE ELSE pending
        /\ last' = [op |-> "set_edge_value", v1 |-> v1, v2 |-> v2,
                    value |-> value, update |-> update, exc |-> r.exc]
        /\ UNCHANGED <<network_graph, nw_order, co_cache, database, conflict_graph,
                   calls, file, inits,
                   conn_cnt, connectors, discoveries>>

\* get_edge_value and get_distance of any two names
GetEdgeValue(v1, v2) ==
    /\ last' = [op |-> "get_edge_value", v1 |-> v1, v2 |-> v2,
                exc |-> Graph_get_edge_value(G, <<v1, v2>>).exc,
                value |-> Graph_get_edge_value(G, <<v1, v2>>).value]
    /\ UNCHANGED <<G, pending, network_graph, nw_order, co_cache, database,
                   conflict_graph, calls, file, inits,
                   conn_cnt, connectors, discoveries>>

GetDistance(v1, v2) ==
    /\ last' = [op |-> "get_distance", v1 |-> v1, v2 |-> v2,
                exc |-> Graph_get_distance(G, v1, v2).exc,
                value |-> Graph_get_distance(G, v1, v2).value]
    /\ UNCHANGED <<G, pending, network_graph, nw_order, co_cache, database,
                   conflict_graph, calls, file, inits,
                   conn_cnt, connectors, discoveries>>

\* copy(): the new Graph is the result of the call
Copy(ord) ==
    /\ last' = [op |-> "copy", ord |-> ord, exc |-> "", value |-> copy(G, ord)]
    /\ UNCHANGED <<G, pending, network_graph, nw_order, co_cache, database,
                   conflict_graph, calls, file, inits,
                   conn_cnt, connectors, discoveries>>

\* copy_fast(): the new Graph is the result of the call
CopyFast(ord) ==
    /\ last' = [op |-> "copy_fast", exc |-> "", value |-> copy_fast(G, ord)]
    /\ UNCHANGED <<G, pending, network_graph, nw_order, co_cache, database,
                   conflict_graph, calls, file, inits,
                   conn_cnt, connectors, discoveries>>

UpdateDistances ==
    /\ G' = update_distances(G)
    /\ Bounded(G')
    /\ pending' = FALSE
    /\ last' = [op |-> "update_distances", exc |-> ""]
    /\ UNCHANGED <<network_graph, nw_order, co_cache, database, conflict_graph,
                   calls, file, inits,
                   conn_cnt, connectors, discoveries>>

Merge(h) ==
    /\ G' = merge(G, h)
    /\ Bounded(G')
    /\ pending' = FALSE
    /\ last' = [op |-> "merge", h |-> h, exc |-> ""]
    /\ UNCHANGED <<network_graph, nw_order, co_cache, database, conflict_graph,
                   calls, file, inits,
                   conn_cnt, connectors, discoveries>>

\* get_edge_value, get_distance, copy and copy_fast leave the graph as it
\* is: the driver makes one of them as its last call, after any calls of the
\* others
Reading == last.op \in {"get_edge_value", "get_distance", "copy", "copy_fast"}

NextGraph ==
    /\ ~Reading
    /\ \/ \E v \in Vertices : AddVertex(v)
       \/ \E v \in Vertices : RemoveVertex(v)
       \/ \E e \in EdgePairs :
             \E value \in EdgeValues, update \in BOOLEAN :
                SetEdgeValue(e[1], e[2], value, update)
       \/ \E v1 \in Vertices, v2 \in Vertices : GetEdgeValue(v1, v2)
       \/ \E v1 \in Vertices, v2 \in Vertices : GetDistance(v1, v2)
       \/ \E ord \in Orders(Vertices) : Copy(ord)
       \/ \E ord \in Orders(Vertices) : CopyFast(ord)
       \/ UpdateDistances
       \/ \E h \in MergeGraphs : Merge(h)

SpecGraph == InitGraph /\ [][NextGraph]_vars

(***************************************************************************)
(* The true hop count, by breadth-first search over the truthy edges.      *)
(***************************************************************************)
Adjacent(g, u, w) ==
    /\ w \in DOMAIN g.values[u]
    /\ Truthy(g.values[u][w])

RECURSIVE Ball(_, _, _)
Ball(g, a, n) ==
    IF n = 0 THEN {a}
    ELSE LET B == Ball(g, a, n - 1)
         IN  B \cup {w \in get_vertices(g) : \E u \in B : Adjacent(g, u, w)}

HopCount(g, a, b) ==
    LET ns == {n \in 0..Cardinality(get_vertices(g)) : b \in Ball(g, a, n)}
    IN  IF ns = {} THEN maxint
        ELSE CHOOSE n \in ns : \A m \in ns : n <= m

\* C1: whenever no deferred recompute is pending, get_distance(a, b) is the
\* true shortest hop count over the truthy edges (0 for a = b, maxint when
\* there is no path)
C1_DistanceIsHopCount ==
    ~pending =>
        \A a \in get_vertices(G), b \in get_vertices(G) :
            get_distance(G, a, b) = HopCount(G, a, b)

\* C12: after a call of update_distances() every vertex has distance 0 to
\* itself, whichever public operations built the graph, set_edge_value on
\* a pair (v, v) among them
C12_SelfDistanceZero ==
    last.op = "update_distances" =>
        \A v \in get_vertices(G) : get_distance(G, v, v) = 0

\* C13: in every state each written direction of an edge value or of a
\* distance has its other direction written with the same value, after
\* completed and after aborted operations
C13_Symmetric ==
    /\ \A a \in DOMAIN G.values : \A b \in DOMAIN G.values[a] :
            /\ Graph_get_edge_value(G, <<b, a>>).exc = ""
            /\ Graph_get_edge_value(G, <<b, a>>).value = get_edge_value(G, <<a, b>>)
    /\ \A a \in DOMAIN G.distances : \A b \in DOMAIN G.distances[a] :
            /\ Graph_get_distance(G, b, a).exc = ""
            /\ Graph_get_distance(G, b, a).value = PyInt(get_distance(G, a, b))

\* the truthy values an edge may carry: the driver's 40, and 1
TruthyValues == {PyInt(1), PyInt(40)}

\* the entries of the value rows of g that hold a truthy value, each
\* undirected edge as the set of its ends
TruthyEdges(g) ==
    {{p[1], p[2]} : p \in {q \in (DOMAIN g.values) \X (DOMAIN g.values) :
                                Truthy(g.values[q[1]][q[2]])}}

\* g with the value 1 on the edges of S
Revalued(g, S) ==
    [g EXCEPT !.values =
        [a \in DOMAIN g.values |-> [b \in DOMAIN g.values[a] |->
            IF {a, b} \in S /\ Truthy(g.values[a][b]) THEN PyInt(1)
            ELSE g.values[a][b]]]]

\* the graphs that differ from g only in which truthy value an edge carries
Variants(g) == {Revalued(g, S) : S \in SUBSET TruthyEdges(g)}

\* the calls that differ from call only in the truthy value they write
CallVariants(call) ==
    CASE call.op = "set_edge_value" /\ Truthy(call.value) ->
            {[call EXCEPT !.value = w] : w \in TruthyValues}
      [] call.op = "merge" ->
            {call, [call EXCEPT !.h = Revalued(call.h, TruthyEdges(call.h))]}
      [] OTHER -> {call}

\* the graph after the call on g
Apply(g, call) ==
    CASE call.op = "add_vertex" -> add_vertex(g, call.v)
      [] call.op = "remove_vertex" -> Graph_remove_vertex(g, call.v).g
      [] call.op = "set_edge_value" ->
            Graph_set_edge_value(g, <<call.v1, call.v2>>, call.value, call.update).g
      [] call.op = "update_distances" -> update_distances(g)
      [] call.op = "merge" -> merge(g, call.h)
      [] OTHER -> g

\* g and h have the same entries, truthy in the same places
SameEdges(g, h) ==
    /\ DOMAIN g.values = DOMAIN h.values
    /\ \A a \in DOMAIN g.values :
            /\ DOMAIN g.values[a] = DOMAIN h.values[a]
            /\ \A b \in DOMAIN g.values[a] :
                    Truthy(g.values[a][b]) = Truthy(h.values[a][b])

\* C14: a call made on a graph that differs from G only in which truthy
\* value its edges carry, writing any truthy value where the call on G
\* writes one, gives the distances the call gives on G and again a graph
\* that differs only in truthy values, so that two graphs built by the same
\* calls with different truthy values have the same distances; and on the
\* path a - b - c - d - e with every value 40 the distance of the i-th to
\* the j-th vertex is |i - j|
C14_DistancesIgnoreValues ==
    [][/\ ~Reading' =>
            \A g \in Variants(G) : \A call \in CallVariants(last') :
                \E r \in {Apply(g, call)} :
                    r.distances = G'.distances /\ SameEdges(r, G')
       /\ \A i \in 1..Len(VertexNames), j \in 1..Len(VertexNames) :
            get_distance(MainGraph, VertexNames[i], VertexNames[j])
                = IF i <= j THEN j - i ELSE i - j]_vars

\* an edge was written into a graph that has another edge, and joined two
\* vertices two hops apart
C14_Witness ==
    /\ last.op = "set_edge_value"
    /\ last.exc = ""
    /\ Truthy(last.value)
    /\ Cardinality(TruthyEdges(G)) >= 2
    /\ \E a \in get_vertices(G), b \in get_vertices(G) : get_distance(G, a, b) = 2

\* C15: add_vertex(v) of a new vertex adds v with distance 0 to itself,
\* distance maxint and value None to every other vertex, and keeps the
\* values and distances between the vertices the graph had; add_vertex(v)
\* of a vertex of the graph leaves the graph as it is
C15_AddVertex ==
    [][last'.op = "add_vertex" =>
        IF last'.v \in get_vertices(G) THEN G' = G
        ELSE /\ get_vertices(G') = get_vertices(G) \cup {last'.v}
             /\ get_distance(G', last'.v, last'.v) = 0
             /\ get_edge_value(G', <<last'.v, last'.v>>) = None
             /\ \A u \in get_vertices(G) :
                    /\ get_distance(G', last'.v, u) = maxint
                    /\ get_distance(G', u, last'.v) = maxint
                    /\ get_edge_value(G', <<last'.v, u>>) = None
                    /\ get_edge_value(G', <<u, last'.v>>) = None
             /\ \A u \in get_vertices(G), w \in get_vertices(G) :
                    /\ get_edge_value(G', <<u, w>>) = get_edge_value(G, <<u, w>>)
                    /\ get_distance(G', u, w) = get_distance(G, u, w)]_vars

\* a vertex was added to a graph that has an edge
C15_Witness ==
    /\ last.op = "add_vertex"
    /\ get_distance(G, last.v, last.v) = 0
    /\ \E u \in get_vertices(G) \ {last.v}, w \in get_vertices(G) \ {last.v} :
            /\ u # w
            /\ Truthy(get_edge_value(G, <<u, w>>))
            /\ get_distance(G, last.v, u) = maxint

\* C16: after remove_vertex(v) of a vertex of the graph, v is no vertex, no
\* row of a remaining vertex has an entry for v, and the values between
\* the remaining vertices are those before the call
C16_RemoveVertex ==
    [][(last'.op = "remove_vertex" /\ last'.v \in get_vertices(G)) =>
        /\ last'.exc = ""
        /\ get_vertices(G') = get_vertices(G) \ {last'.v}
        /\ DOMAIN G'.distances = get_vertices(G')
        /\ \A u \in get_vertices(G') :
                /\ last'.v \notin DOMAIN G'.values[u]
                /\ last'.v \notin DOMAIN G'.distances[u]
                /\ \A w \in get_vertices(G') :
                        get_edge_value(G', <<u, w>>) = get_edge_value(G, <<u, w>>)]_vars

\* the middle vertex of a path was removed and the other two remain
C16_Witness ==
    /\ last.op = "remove_vertex"
    /\ last.exc = ""
    /\ Cardinality(get_vertices(G)) = 2
    /\ \E u \in get_vertices(G), w \in get_vertices(G) : get_distance(G, u, w) = 2

\* C19: after g.merge(h) of two graphs with correct distances, g has the
\* vertices of both, h's value on every pair that is truthy in h, its own
\* previous value on every other pair it had (None on a pair with a new
\* vertex), and the true hop count as distance
C19_Merge ==
    [][(/\ last'.op = "merge"
        /\ \A a \in get_vertices(G), b \in get_vertices(G) :
                get_distance(G, a, b) = HopCount(G, a, b)
        /\ \A a \in get_vertices(last'.h), b \in get_vertices(last'.h) :
                get_distance(last'.h, a, b) = HopCount(last'.h, a, b)) =>
        /\ get_vertices(G') = get_vertices(G) \cup get_vertices(last'.h)
        /\ \A a \in get_vertices(G'), b \in get_vertices(G') :
                /\ get_edge_value(G', <<a, b>>) =
                      IF /\ a \in get_vertices(last'.h)
                         /\ b \in get_vertices(last'.h)
                         /\ Truthy(get_edge_value(last'.h, <<a, b>>))
                      THEN get_edge_value(last'.h, <<a, b>>)
                      ELSE IF a \in get_vertices(G) /\ b \in get_vertices(G)
                           THEN get_edge_value(G, <<a, b>>)
                           ELSE None
                /\ get_distance(G', a, b) = HopCount(G', a, b)]_vars

\* a merge joined an edge of g and an edge of h into a path of two hops
C19_Witness ==
    /\ last.op = "merge"
    /\ \A a \in get_vertices(G), b \in get_vertices(G) :
            get_distance(G, a, b) = HopCount(G, a, b)
    /\ \E a \in get_vertices(G), b \in get_vertices(G) :
            /\ get_distance(G, a, b) = 2
            /\ a \in get_vertices(last.h) /\ b \notin get_vertices(last.h)

\* C20: copy() gives a graph with the vertices of the original and, for
\* every pair of them, the value and the distance of the original
C20_CopyIsEqual ==
    last.op = "copy" =>
        /\ get_vertices(last.value) = get_vertices(G)
        /\ \A a \in get_vertices(G), b \in get_vertices(G) :
                /\ get_edge_value(last.value, <<a, b>>) = get_edge_value(G, <<a, b>>)
                /\ get_distance(last.value, a, b) = get_distance(G, a, b)

\* C21: copy_fast() gives a graph with the vertices of the original and,
\* for every pair of them, the value and the distance of the original, also
\* for a pair joined only by a path of several edges
C21_CopyFastIsEqual ==
    last.op = "copy_fast" =>
        /\ get_vertices(last.value) = get_vertices(G)
        /\ \A a \in get_vertices(G), b \in get_vertices(G) :
                /\ get_edge_value(last.value, <<a, b>>) = get_edge_value(G, <<a, b>>)
                /\ get_distance(last.value, a, b) = get_distance(G, a, b)

(***************************************************************************)
(* SpecEdges: get_edges() of a Graph whose edges carry values of every     *)
(* kind.                                                                   *)
(***************************************************************************)
\* the values of an edge: the four that stand for no edge, and two others
AnyValues == {None, PyStr(<< >>), PyFalse, PyInt(0), PyInt(40), PyStr(<<"1">>)}

\* the pairs that are given a value
ValuedPairs == {<<"a", "b">>, <<"c", "b">>, <<"a", "a">>}

\* Graph(Vertices), a batch of set_edge_value(e, value, False), then
\* update_distances()
EdgeGraphs ==
    {update_distances(set_edge_values(NewGraph(Vertices), chan, SetToSeq(ValuedPairs))) :
        chan \in [ValuedPairs -> AnyValues]}

InitEdges ==
    /\ G \in EdgeGraphs
    /\ pending = FALSE
    /\ network_graph = EmptyGraph
    /\ nw_order = << >>
    /\ co_cache = << >>
    /\ database = << >>
    /\ conflict_graph = None
    /\ calls = 0
    /\ discoveries = << >>
    /\ connectors = << >>
    /\ conn_cnt = 0
    /\ inits = 0
    /\ file = None
    /\ last = [op |-> "init"]

\* get_edges(get_all): ord is the order in which the vertex set is enumerated
GetEdges(ord, get_all) ==
    /\ last' = [op |-> "get_edges", ord |-> ord, get_all |-> get_all,
                value |-> get_edges(G, ord, get_all)]
    /\ UNCHANGED <<G, pending, network_graph, nw_order, co_cache, database,
                   conflict_graph, calls, file, inits,
                   conn_cnt, connectors, discoveries>>

NextEdges == \E ord \in Orders(Vertices), get_all \in BOOLEAN : GetEdges(ord, get_all)

SpecEdges == InitEdges /\ [][NextEdges]_vars

\* C18: the dict get_edges() returns has a key exactly for the pairs with a
\* truthy value, mapped to that value: one of (a, b) and (b, a) for each
\* undirected edge, and both with get_all=True; a pair whose value is None,
\* "", False or 0 has no key
C18_GetEdges ==
    last.op = "get_edges" =>
        /\ \A e \in DOMAIN last.value :
                /\ e[1] \in get_vertices(G) /\ e[2] \in get_vertices(G)
                /\ get_edge_value(G, e) \notin {None, PyStr(<< >>), PyFalse, PyInt(0)}
                /\ last.value[e] = get_edge_value(G, e)
        /\ \A a \in get_vertices(G), b \in get_vertices(G) :
                get_edge_value(G, <<a, b>>) \notin {None, PyStr(<< >>), PyFalse, PyInt(0)} =>
                    IF last.get_all
                    THEN <<a, b>> \in DOMAIN last.value /\ <<b, a>> \in DOMAIN last.value
                    ELSE Cardinality({<<a, b>>, <<b, a>>} \cap DOMAIN last.value) = 1

\* get_edges() of a graph with two edges and a pair whose value is 0 or ""
C18_Witness ==
    /\ last.op = "get_edges"
    /\ ~last.get_all
    /\ Cardinality(DOMAIN last.value) = 2
    /\ \E e \in ValuedPairs : get_edge_value(G, e) \in {PyInt(0), PyStr(<< >>)}
    /\ \E e \in DOMAIN last.value : e[1] # e[2] /\ <<e[2], e[1]>> \notin DOMAIN last.value

\* the call last names a vertex that g does not hold
NamesUnknown(g, call) ==
    CASE call.op = "remove_vertex" -> call.v \notin get_vertices(g)
      [] call.op \in {"set_edge_value", "get_edge_value", "get_distance"} ->
            call.v1 \notin get_vertices(g) \/ call.v2 \notin get_vertices(g)
      [] OTHER -> FALSE

\* C17: a call of remove_vertex, set_edge_value, get_edge_value or
\* get_distance that names a vertex the graph does not hold raises KeyError
\* and leaves every value and distance as it was
C17_UnknownVertexFails ==
    [][NamesUnknown(G, last') => (last'.exc = "KeyError" /\ G' = G)]_vars

(***************************************************************************)
(* str() and int() of the channel values.                                  *)
(***************************************************************************)
DigitChars == <<"0", "1", "2", "3", "4", "5", "6", "7", "8", "9">>

IsDigit(c) == \E i \in 1..10 : DigitChars[i] = c

DigitValue(c) == (CHOOSE i \in 1..10 : DigitChars[i] = c) - 1

RECURSIVE Digits(_)
Digits(n) ==
    IF n < 10 THEN <<DigitChars[n + 1]>>
    ELSE Append(Digits(n \div 10), DigitChars[(n % 10) + 1])

\* str(n) cut after its first character
py_str_first_char(n) ==
    PyStr(<<Head(IF n < 0 THEN <<"-">> \o Digits(-n) ELSE Digits(n))>>)

\* str(n) of an int
py_str(n) == PyStr(IF n < 0 THEN <<"-">> \o Digits(-n) ELSE Digits(n))

RECURSIVE ParseDigits(_, _)
ParseDigits(s, acc) ==
    IF s = << >> THEN acc
    ELSE ParseDigits(Tail(s), 10 * acc + DigitValue(Head(s)))

\* int(v): an int is itself; a str is parsed as an optional sign and at
\* least one decimal digit (the strings of the model hold no blanks), and
\* is a ValueError otherwise; any other type is a TypeError
py_int(v) ==
    CASE v.t = "int" -> Return(v.n)
      [] v.t = "str" ->
            LET neg  == v.s # << >> /\ Head(v.s) = "-"
                body == IF neg THEN Tail(v.s) ELSE v.s
            IN  IF body # << >> /\ \A i \in 1..Len(body) : IsDigit(body[i])
                THEN Return(IF neg THEN -ParseDigits(body, 0)
                                   ELSE ParseDigits(body, 0))
                ELSE Raise("ValueError")
      [] OTHER -> Raise("TypeError")

(***************************************************************************)
(* The interference models.  graph is the network graph, ord the order in  *)
(* which its vertex set is enumerated, e1 and e2 two links.                *)
(***************************************************************************)
\* int(graph.get_edges()[e]) inside try/except TypeError -> CHANError
edge_channel(graph, ord, e) ==
    LET edges == get_edges(graph, ord, FALSE)
    IN  IF e \notin DOMAIN edges THEN Raise("KeyError")
        ELSE LET r == py_int(edges[e])
             IN  IF r.exc = "TypeError" THEN Raise("CHANError") ELSE r

\* min_hop_count that compares only first with first and second with second
min_hop_count_two_pairs(graph, e1, e2) ==
    Min(get_distance(graph, e1[1], e2[1]), get_distance(graph, e1[2], e2[2]))

\* min(hop_counts) of the four endpoint pairs
min_hop_count(graph, e1, e2) ==
    Min(Min(get_distance(graph, e1[1], e2[1]), get_distance(graph, e1[1], e2[2])),
        Min(get_distance(graph, e1[2], e2[1]), get_distance(graph, e1[2], e2[2])))

\* two_hop.get_interference
two_hop_get_interference(graph, ord, e1, e2) ==
    IF e1 = e2 THEN Return(PyInt(0))
    ELSE LET channel1 == edge_channel(graph, ord, e1)
             channel2 == edge_channel(graph, ord, e2)
         IN  IF channel1.exc # "" THEN Raise(channel1.exc)
             ELSE IF channel2.exc # "" THEN Raise(channel2.exc)
             ELSE IF channel1.value # channel2.value THEN Return(PyInt(0))
             ELSE IF min_hop_count(graph, e1, e2) < 2 THEN Return(PyInt(1))
             ELSE Return(PyInt(0))

MIN_FREQ_DIFF == 60

\* range(start, stop, step)
Range(start, stop, step) ==
    {i \in start..(stop - 1) : (i - start) % step = 0}

\* frequencies whose lower 5 GHz band has its channels 10 MHz apart
frequencies_narrow_band ==
    [i \in Range(149, 169, 4) |-> 5745 + 20 * ((i - 149) \div 4)] @@
    [i \in Range(100, 144, 4) |-> 5500 + 20 * ((i - 100) \div 4)] @@
    [i \in Range(36, 68, 4) |-> 5180 + 10 * ((i - 36) \div 4)] @@
    [j \in {i + 1 : i \in Range(0, 14, 1)} |-> 2412 + (j - 1) * 5]

\* the module-level dict frequencies (Python 2: / of two ints is the floor)
frequencies ==
    [i \in Range(149, 169, 4) |-> 5745 + 20 * ((i - 149) \div 4)] @@
    [i \in Range(100, 144, 4) |-> 5500 + 20 * ((i - 100) \div 4)] @@
    [i \in Range(36, 68, 4) |-> 5180 + 20 * ((i - 36) \div 4)] @@
    [j \in {i + 1 : i \in Range(0, 14, 1)} |-> 2412 + (j - 1) * 5]

Abs(x) == IF x < 0 THEN -x ELSE x

\* a float that is num / MIN_FREQ_DIFF: the only floats of the model are the
\* values of -1.0/MIN_FREQ_DIFF * diff + 1, kept as exact fractions
PyFloat(num) == [t |-> "float", num |-> num]

\* an int or a float of the model, in units of 1 / MIN_FREQ_DIFF
Sixtieths(v) == IF v.t = "int" THEN MIN_FREQ_DIFF * v.n ELSE v.num

\* two_hop_frac.get_interference
two_hop_frac_get_interference(graph, ord, e1, e2) ==
    IF e1 = e2 THEN Return(PyInt(0))
    ELSE LET channel1 == edge_channel(graph, ord, e1)
             channel2 == edge_channel(graph, ord, e2)
         IN  IF channel1.exc # "" THEN Raise(channel1.exc)
             ELSE IF channel2.exc # "" THEN Raise(channel2.exc)
             ELSE IF channel1.value \notin DOMAIN frequencies
                     \/ channel2.value \notin DOMAIN frequencies
                  THEN Raise("KeyError")
             ELSE LET diff == Abs(frequencies[channel1.value]
                                  - frequencies[channel2.value])
                  IN  IF diff >= MIN_FREQ_DIFF THEN Return(PyInt(0))
                      ELSE IF min_hop_count(graph, e1, e2) < 2
                           THEN Return(PyFloat(MIN_FREQ_DIFF - diff))
                           ELSE Return(PyInt(0))

\* the threshold of the sensed channel occupancy, in percent; the model's
\* occupancy values are whole percents
CO_THRESHOLD == 2

\* co.node_id and co.cot_max when the module is imported
EmptyCache == [node_id |-> << >>, cot_max |-> << >>]

\* the second loop of co.init(): one row after the other, until a row names
\* a node id that node_id does not hold
RECURSIVE init_results(_, _)
init_results(cache, rows) ==
    IF rows = << >> THEN [cache |-> cache, exc |-> ""]
    ELSE LET res == Head(rows)
         IN  IF res.id_listener \notin DOMAIN cache.node_id
                \/ res.id_sender \notin DOMAIN cache.node_id
             THEN [cache |-> cache, exc |-> "KeyError"]
             ELSE init_results(
                    [cache EXCEPT !.cot_max =
                        DictSet(@, <<cache.node_id[res.id_listener],
                                     cache.node_id[res.id_sender]>>, res.cot_max)],
                    Tail(rows))

RECURSIVE init_nodes(_, _)
init_nodes(cache, rows) ==
    IF rows = << >> THEN cache
    ELSE init_nodes([cache EXCEPT !.node_id =
                        DictSet(@, Head(rows).id, Head(rows).name)],
                    Tail(rows))

\* co.init(): db.nodes and db.results are what the two raw queries return.
\* The key listener + '-' + sender of cot_max is the pair of the two names.
init(cache, db) == init_results(init_nodes(cache, db.nodes), db.results)

Max(x, y) == IF x >= y THEN x ELSE y

\* if len(node_id) == 0: the call runs init()
runs_init(cache) == Cardinality(DOMAIN cache.node_id) = 0

\* co.get_interference: gives the result and the module's cache afterwards
co_get_interference(cache, db, graph, ord, e1, e2) ==
    LET loaded == IF runs_init(cache)
                  THEN init(cache, db)
                  ELSE [cache |-> cache, exc |-> ""]
        cot_max == loaded.cache.cot_max
        keys == <<<<e1[1], e2[1]>>, <<e1[1], e2[2]>>,
                  <<e1[2], e2[1]>>, <<e1[2], e2[2]>>>>
        channel1 == edge_channel(graph, ord, e1)
        channel2 == edge_channel(graph, ord, e2)
        result ==
            IF loaded.exc # "" THEN Raise(loaded.exc)
            ELSE IF e1 = e2 THEN Return(PyInt(0))
            ELSE IF channel1.exc # "" THEN Raise(channel1.exc)
            ELSE IF channel2.exc # "" THEN Raise(channel2.exc)
            ELSE IF channel1.value # channel2.value THEN Return(PyInt(0))
            ELSE IF \E i \in 1..4 : keys[i] \notin DOMAIN cot_max
                 THEN Raise("KeyError")
            ELSE IF Max(Max(cot_max[keys[1]], cot_max[keys[2]]),
                        Max(cot_max[keys[3]], cot_max[keys[4]])) > CO_THRESHOLD
                 THEN Return(PyInt(1))
                 ELSE Return(PyInt(0))
    IN  [exc |-> result.exc, value |-> result.value, cache |-> loaded.cache]

InterferenceModels == {"two_hop", "two_hop_frac", "co"}

\* interference_model.get_interference(graph, e1, e2)
get_interference(model, cache, db, graph, ord, e1, e2) ==
    CASE model = "two_hop" ->
            LET r == two_hop_get_interference(graph, ord, e1, e2)
            IN  [exc |-> r.exc, value |-> r.value, cache |-> cache]
      [] model = "two_hop_frac" ->
            LET r == two_hop_frac_get_interference(graph, ord, e1, e2)
            IN  [exc |-> r.exc, value |-> r.value, cache |-> cache]
      [] model = "co" -> co_get_interference(cache, db, graph, ord, e1, e2)


(***************************************************************************)
(* Network graphs and measurement databases the driver can hold.           *)
(***************************************************************************)
\* the nodes of the testbed
Nodes == {"a", "b", "c", "d", "e"}

ReverseNames == [i \in 1..Len(VertexNames) |-> VertexNames[Len(VertexNames) + 1 - i]]

\* Graph(Nodes), a batch of set_edge_value(edge, chan[edge], False), then
\* update_distances(): chan maps each link to its value
NetworkGraph(chan) ==
    update_distances(set_edge_values(NewGraph(Nodes), chan, SetToSeq(DOMAIN chan)))

\* the links of the path a - b - c - d - e
PathLinks == {<<"a", "b">>, <<"b", "c">>, <<"c", "d">>, <<"d", "e">>}

\* the values of a link: no link, channel 1 as an int and as a str, channel 6
LinkValues == {None, PyInt(1), py_str(1), PyInt(6)}

PathGraphs == {NetworkGraph(chan) : chan \in [PathLinks -> LinkValues]}

\* the channels of the 2.4 GHz band and of the three 5 GHz bands
TableChannels ==
    (1..14) \cup {36 + 4 * k : k \in 0..7} \cup {100 + 4 * k : k \in 0..10}
            \cup {149 + 4 * k : k \in 0..4}

\* two links, next to each other or with no path between them, on any two
\* of these channels, one an int and one a str
FreqGraphs ==
    {NetworkGraph((<<"a", "b">> :> PyInt(c[1])) @@ (e2 :> py_str(c[2]))) :
        c \in TableChannels \X TableChannels,
        e2 \in {<<"b", "c">>, <<"d", "e">>}}

\* values that int() does not take: a str that is no number, and an object
\* that is neither a number nor a str (a set)
PySet == [t |-> "set"]

UnparsableValues == {PyStr(<<"x">>), PySet}

\* two links sharing node b, each with channel 1 or with such a value
ValueGraphs ==
    {NetworkGraph((<<"a", "b">> :> v[1]) @@ (<<"b", "c">> :> v[2])) :
        v \in ({PyInt(1)} \cup UnparsableValues) \X ({PyInt(1)} \cup UnparsableValues)}

\* the id of a node in the database
NodeId(name) == CHOOSE i \in 1..Len(VertexNames) : VertexNames[i] = name

NodeRows == [i \in 1..Cardinality(Nodes) |-> [id |-> i, name |-> VertexNames[i]]]

\* the rows of CORResultsKernel for the listener-sender pairs of keys:
\* occupancy 3 for the pairs of loud, 2 for the others
ResultRows(keys, loud) ==
    LET ks == SetToSeq(keys)
    IN  [i \in 1..Len(ks) |->
            [id_listener |-> NodeId(ks[i][1]), id_sender |-> NodeId(ks[i][2]),
             cot_max |-> IF ks[i] \in loud THEN 3 ELSE 2]]

\* a full table where a hears c, b and d hear each other; the same table
\* without a node's measurement of itself; a full table below the threshold
Databases ==
    {[nodes |-> NodeRows,
      results |-> ResultRows(Nodes \X Nodes,
                             {<<"a", "c">>, <<"b", "d">>, <<"d", "b">>})],
     [nodes |-> NodeRows,
      results |-> ResultRows({k \in Nodes \X Nodes : k[1] # k[2]},
                             {<<"a", "c">>, <<"b", "d">>, <<"d", "b">>})],
     [nodes |-> NodeRows, results |-> ResultRows(Nodes \X Nodes, {})]}

FullDatabase == CHOOSE db \in Databases :
    Len(db.results) = Cardinality(Nodes \X Nodes) /\ \E i \in 1..Len(db.results) : db.results[i].cot_max = 3

(***************************************************************************)
(* SpecIM: a driver calling get_interference of the three models on the    *)
(* links of a network graph.                                               *)
(***************************************************************************)
\* graph.get_edges().keys(): the links of the network graph
Links(graph, ord) == DOMAIN get_edges(graph, ord, FALSE)

InitIM ==
    /\ G = EmptyGraph
    /\ pending = FALSE
    /\ network_graph = EmptyGraph
    /\ nw_order = VertexNames
    /\ database = FullDatabase
    /\ co_cache = EmptyCache
    /\ conflict_graph = None
    /\ calls = 0
    /\ discoveries = << >>
    /\ connectors = << >>
    /\ conn_cnt = 0
    /\ inits = 0
    /\ file = None
    /\ last = [op |-> "init"]

\* the driver builds its network graph and the measurements are taken
BuildNetwork ==
    /\ last.op = "init"
    /\ \/ /\ network_graph' \in PathGraphs
          /\ database' \in Databases
          /\ nw_order' \in {VertexNames, ReverseNames}
       \/ /\ network_graph' \in FreqGraphs
          /\ UNCHANGED <<database, nw_order>>
       \/ /\ network_graph' \in ValueGraphs
          /\ UNCHANGED <<database, nw_order>>
    /\ last' = [op |-> "build"]
    /\ UNCHANGED <<G, pending, co_cache, conflict_graph, calls, file, inits,
                   conn_cnt, connectors, discoveries>>

\* one call in each behaviour: the models are functions of their arguments
\* and, for co, of the database
GetInterference(model, e1, e2) ==
    LET r == get_interference(model, co_cache, database, network_graph,
                              nw_order, e1, e2)
    IN  /\ last.op = "build"
        /\ co_cache' = r.cache
        /\ last' = [op |-> "get_interference", model |-> model,
                    e1 |-> e1, e2 |-> e2, exc |-> r.exc, value |-> r.value]
        /\ UNCHANGED <<G, pending, network_graph, nw_order, database,
                       conflict_graph, calls, file, inits,
                   conn_cnt, connectors, discoveries>>

NextIM ==
    \/ BuildNetwork
    \/ \E model \in InterferenceModels :
          \E e1 \in Links(network_graph, nw_order),
             e2 \in Links(network_graph, nw_order) :
              GetInterference(model, e1, e2)

SpecIM == InitIM /\ [][NextIM]_vars


(***************************************************************************)
(* The interference models' results (SpecIM).                              *)
(***************************************************************************)
\* last holds a call of get_interference of the model
Called(model) == last.op = "get_interference" /\ last.model = model

\* the channel the value of link e stands for
LinkChannel(e) == py_int(get_edge_value(network_graph, e)).value

\* int() takes the value and gives an integer
ParsesAsChannel(v) == py_int(v).exc = ""

\* the value of link e is an integer channel
HasChannel(e) == ParsesAsChannel(get_edge_value(network_graph, e))

Ends(e) == {e[1], e[2]}

\* some endpoint of e1 is fewer than two hops from some endpoint of e2
Near(e1, e2) ==
    \E x \in Ends(e1), y \in Ends(e2) : get_distance(network_graph, x, y) < 2

\* C8: the binary two-hop model gives 1 exactly for two distinct links on
\* the same channel with an endpoint pair fewer than two hops apart, and 0
\* otherwise; links sharing an endpoint on one channel give 1, links whose
\* endpoint distances are all at least 2 give 0
C8_TwoHopBinary ==
    (Called("two_hop") /\ HasChannel(last.e1) /\ HasChannel(last.e2)) =>
        /\ last.exc = ""
        /\ last.value \in {PyInt(0), PyInt(1)}
        /\ last.value = PyInt(1) <=>
              /\ last.e1 # last.e2
              /\ LinkChannel(last.e1) = LinkChannel(last.e2)
              /\ Near(last.e1, last.e2)
        /\ (/\ last.e1 # last.e2
            /\ Ends(last.e1) \cap Ends(last.e2) # {}
            /\ LinkChannel(last.e1) = LinkChannel(last.e2)) => last.value = PyInt(1)
        /\ (\A x \in Ends(last.e1), y \in Ends(last.e2) :
                get_distance(network_graph, x, y) >= 2) => last.value = PyInt(0)

\* two links on one channel whose nearest endpoints are exactly two hops
\* apart on a connected path give 0
C8_Witness ==
    /\ Called("two_hop")
    /\ last.e1 # last.e2
    /\ HasChannel(last.e1) /\ HasChannel(last.e2)
    /\ LinkChannel(last.e1) = LinkChannel(last.e2)
    /\ \A x \in Ends(last.e1), y \in Ends(last.e2) :
            get_distance(network_graph, x, y) \in 2..4
    /\ \E x \in Ends(last.e1), y \in Ends(last.e2) :
            get_distance(network_graph, x, y) = 2
    /\ last.value = PyInt(0)

\* the centre frequency of a channel of the table, in MHz
CentreFrequency(c) ==
    IF c <= 14 THEN 2412 + 5 * (c - 1)
    ELSE IF c <= 64 THEN 5180 + 20 * ((c - 36) \div 4)
    ELSE IF c <= 140 THEN 5500 + 20 * ((c - 100) \div 4)
    ELSE 5745 + 20 * ((c - 149) \div 4)

C10_ChannelOccupancy ==
    (Called("co") /\ last.e1 # last.e2
        /\ HasChannel(last.e1) /\ HasChannel(last.e2)) =>
        /\ last.exc = ""
        /\ last.value =
              IF /\ LinkChannel(last.e1) = LinkChannel(last.e2)
                 /\ \E x \in Ends(last.e1), y \in Ends(last.e2) :
                        /\ <<x, y>> \in DOMAIN co_cache.cot_max
                        /\ co_cache.cot_max[<<x, y>>] > 2
              THEN PyInt(1) ELSE PyInt(0)

\* C11: in each of the three models, get_interference on two distinct links
\* of which one has a value that does not parse as an integer channel raises
\* CHANError: no other exception, and no value
C11_UnparsableRaisesCHANError ==
    (/\ last.op = "get_interference"
     /\ last.e1 # last.e2
     /\ \/ ~ParsesAsChannel(get_edge_value(network_graph, last.e1))
        \/ ~ParsesAsChannel(get_edge_value(network_graph, last.e2))) =>
        last.exc = "CHANError"

\* C25: in each of the three models get_interference(graph, e1, e2) and
\* get_interference(graph, e2, e1) have the same outcome, so the weight of
\* a pair of conflict-graph vertices does not depend on which is passed first
C25_InterferenceSymmetric ==
    last.op = "get_interference" =>
        \E r \in {get_interference(last.model, EmptyCache, database, network_graph,
                                   nw_order, last.e2, last.e1)} :
            r.exc = last.exc /\ r.value = last.value


(***************************************************************************)
(* class ConflictGraph(Graph).  The object is the [values, distances] of   *)
(* the Graph it extends, over ConflictGraphVertex objects named 1, 2, ..,  *)
(* and with them                                                           *)
(*   nw_graph_edge       the nw_graph_edge of each vertex object,          *)
(*   order               the order in which the vertex set is enumerated,  *)
(*   interference_model  the module whose get_interference it calls,       *)
(*   network_ref         which Graph object self.network_graph is: the     *)
(*                       contents of that object are network_graph.        *)
(***************************************************************************)
\* the object when ConflictGraph.__init__ starts
NewConflictGraph(ref, model) ==
    [values |-> << >>, distances |-> << >>, nw_graph_edge |-> << >>,
     order |-> << >>, interference_model |-> model, network_ref |-> ref]

\* the name of the next ConflictGraphVertex object: the first one free
NewVertex(c) ==
    CHOOSE i \in 1..(Cardinality(get_vertices(c)) + 1) :
        i \notin get_vertices(c) /\ \A j \in 1..(i - 1) : j \in get_vertices(c)

\* self.add_vertex(ConflictGraphVertex(self, edge))
add_link_vertex(c, edge) ==
    LET v == NewVertex(c)
        g == add_vertex(c, v)
    IN  [c EXCEPT !.values = g.values, !.distances = g.distances,
                  !.nw_graph_edge = DictSet(@, v, edge)]

RECURSIVE add_link_vertices(_, _)
add_link_vertices(c, edges) ==
    IF edges = << >> THEN c
    ELSE add_link_vertices(add_link_vertex(c, edges[1]), Tail(edges))

\* the loop body of update_edges and of update_edge, for the vertex pairs
\* of the loop, until get_interference raises
RECURSIVE update_pairs(_, _, _, _, _, _)
update_pairs(c, cache, db, graph, ord, pairs) ==
    IF pairs = << >> THEN [exc |-> "", cg |-> c, cache |-> cache]
    ELSE LET store(value) ==
                IF value.exc # ""
                THEN [exc |-> value.exc, cg |-> c, cache |-> value.cache]
                ELSE update_pairs(set_edge_value(c, pairs[1], value.value, FALSE),
                                  value.cache, db, graph, ord, Tail(pairs))
         IN  store(get_interference(c.interference_model, cache, db, graph, ord,
                                    c.nw_graph_edge[pairs[1][1]],
                                    c.nw_graph_edge[pairs[1][2]]))

\* ConflictGraph.update_edges
update_edges(c, cache, db, graph, ord) ==
    update_pairs(c, cache, db, graph, ord, TrianglePairs(c.order))

\* ConflictGraph.update_edge(cg_vertex)
update_edge(c, cache, db, graph, ord, cg_vertex) ==
    update_pairs(c, cache, db, graph, ord,
                 [i \in 1..Len(c.order) |-> <<cg_vertex, c.order[i]>>])

\* ConflictGraph.__init__(network_graph, interference_model); cgord is the
\* order in which the new vertex set is enumerated
ConflictGraph_init(graph, ord, ref, model, cache, db, cgord) ==
    LET edges == SetToSeq(DOMAIN get_edges(graph, ord, FALSE))
        c     == add_link_vertices(NewConflictGraph(ref, model), edges)
    IN  update_edges([c EXCEPT !.order = cgord], cache, db, graph, ord)

\* ConflictGraphVertex.get_channel
get_channel(c, graph, v) == py_int(get_edge_value(graph, c.nw_graph_edge[v]))

\* ConflictGraphVertex.set_channel(channel): the network graph and the
\* conflict graph afterwards
set_channel(c, cache, db, graph, ord, v, channel) ==
    LET updated(g1) ==
            LET outcome(r) == [exc |-> r.exc, cg |-> r.cg, cache |-> r.cache,
                               graph |-> g1]
            IN  outcome(update_edge(c, cache, db, g1, ord, v))
    IN  updated(set_edge_value(graph, c.nw_graph_edge[v], py_str(channel), TRUE))

\* ConflictGraph.get_vertex(node1, node2): the first vertex in the order of
\* enumeration whose link joins the two nodes; None is written 0
get_vertex(c, ord, node1, node2) ==
    LET found == Enum({v \in get_vertices(c) :
                          c.nw_graph_edge[v] \in {<<node1, node2>>, <<node2, node1>>}},
                      ord)
    IN  IF found = << >> THEN 0 ELSE found[1]

\* sum += value
py_add(x, y) ==
    IF x.t = "int" /\ y.t = "int" THEN PyInt(x.n + y.n)
    ELSE PyFloat(Sixtieths(x) + Sixtieths(y))

RECURSIVE sum_values(_, _, _)
sum_values(sum, edges, keys) ==
    IF keys = << >> THEN sum
    ELSE sum_values(py_add(sum, edges[keys[1]]), edges, Tail(keys))

\* get_interference_sum over get_edges(get_all=True)
get_interference_sum_get_all(c) ==
    LET edges == get_edges(c, c.order, TRUE)
    IN  sum_values(PyInt(0), edges, SetToSeq(DOMAIN edges))

\* ConflictGraph.get_interference_sum
get_interference_sum(c) ==
    LET edges == get_edges(c, c.order, FALSE)
    IN  sum_values(PyInt(0), edges, SetToSeq(DOMAIN edges))

\* a reconciliation that creates no vertex for the links that appeared
appeared_edges_none(old_edges, new_edges) == {}

\* new_edges_keys - old_edges_keys
appeared_edges(old_edges, new_edges) == DOMAIN new_edges \ DOMAIN old_edges


\* old_edges_keys - new_edges_keys
obsolete_edges(old_edges, new_edges) == DOMAIN old_edges \ DOMAIN new_edges

\* self.remove_vertex(vertex), for a vertex of the conflict graph
remove_link_vertex(c, vertex) ==
    LET g == remove_vertex(c, vertex)
    IN  [c EXCEPT !.values = g.values, !.distances = g.distances,
                  !.nw_graph_edge = DictDel(@, vertex)]

\* the second loop of update: remove_vertex(None) raises KeyError
RECURSIVE remove_obsolete(_, _, _)
remove_obsolete(c, tord, edges) ==
    IF edges = << >> THEN [exc |-> "", cg |-> c]
    ELSE LET vertex == get_vertex(c, tord, edges[1][1], edges[1][2])
         IN  IF vertex = 0 THEN [exc |-> "KeyError", cg |-> c]
             ELSE remove_obsolete(remove_link_vertex(c, vertex), tord, Tail(edges))

\* ConflictGraph.update(network_graph) up to the call of update_edges.
\* bound is the graph self.network_graph refers to, graph the argument and
\* ref its identity.  The old vertices keep their order of enumeration;
\* tfirst are the new vertices that the enumeration reaches before the old
\* ones, the other new vertices come after them.
update_vertices(c, bound, bound_ord, graph, ord, ref, tfirst) ==
    LET reconcile(old_edges, new_edges) ==
            IF new_edges = old_edges THEN [exc |-> "", cg |-> c, found |-> FALSE]
            ELSE LET removed(c1) ==
                        LET ordered(tord) ==
                                LET outcome(r) ==
                                        [exc |-> r.exc, found |-> TRUE,
                                         cg |-> [r.cg EXCEPT !.order =
                                                    Enum(get_vertices(r.cg), tord)]]
                                IN  outcome(remove_obsolete(c1, tord,
                                        SetToSeq(obsolete_edges(old_edges, new_edges))))
                        IN  ordered(SetToSeq(tfirst) \o c.order \o
                                SetToSeq((get_vertices(c1) \ get_vertices(c)) \ tfirst))
                 IN  removed(add_link_vertices([c EXCEPT !.network_ref = ref],
                                SetToSeq(appeared_edges(old_edges, new_edges))))
    IN  reconcile(get_edges(bound, bound_ord, FALSE), get_edges(graph, ord, FALSE))

\* ConflictGraph.update(network_graph)
update(c, cache, db, bound, bound_ord, graph, ord, ref, tfirst) ==
    LET recompute(r) ==
            IF ~r.found \/ r.exc # ""
            THEN [exc |-> r.exc, cg |-> r.cg, cache |-> cache, found |-> r.found]
            ELSE LET outcome(u) ==
                        [exc |-> u.exc, cg |-> u.cg, cache |-> u.cache, found |-> TRUE]
                 IN  outcome(update_edges(r.cg, cache, db, graph, ord))
    IN  recompute(update_vertices(c, bound, bound_ord, graph, ord, ref, tfirst))

(***************************************************************************)
(* SpecCG: a driver that builds a ConflictGraph over a network graph,      *)
(* changes channels through set_channel, hands new network graphs to       *)
(* update and reads get_interference_sum.  A call that raises ends the     *)
(* run.  The network graphs come from Graph(vertices), a batch of          *)
(* set_edge_value(.., False) and update_distances().                       *)
(***************************************************************************)
\* the links of the testbed
CGLinks == {<<"a", "b">>, <<"b", "c">>, <<"c", "d">>}

\* the network graphs: every link is absent or on channel 1
CGGraphs == {NetworkGraph(chan) : chan \in [CGLinks -> {None, py_str(1)}]}

\* the network graphs the driver hands to update: two links or three
UpdateGraphs == {g \in CGGraphs : Cardinality(DOMAIN get_edges(g, VertexNames, FALSE)) >= 2}

\* the measurements: a table in which some node hears another
CGDatabases ==
    {db \in Databases : \E i \in DOMAIN db.results : db.results[i].cot_max > CO_THRESHOLD}

\* the bound on the number of set_channel and update calls of a run
MaxCalls == 3

\* the channels the driver assigns
Channels == {1, 11}

\* the two Graph objects of the driver: the one the conflict graph is
\* bound to and the other one
GraphRefs == {"g1", "g2"}

\* the undirected edges of a graph with their values
UndirectedEdges(graph) ==
    LET edges == get_edges(graph, VertexNames, FALSE)
    IN  [l \in {{e[1], e[2]} : e \in DOMAIN edges} |->
            edges[CHOOSE e \in DOMAIN edges : l = {e[1], e[2]}]]

InitCG ==
    /\ G = EmptyGraph
    /\ pending = FALSE
    /\ network_graph = EmptyGraph
    /\ nw_order = VertexNames
    /\ database = FullDatabase
    /\ co_cache = EmptyCache
    /\ conflict_graph = NewConflictGraph("g1", "two_hop")
    /\ calls = 0
    /\ discoveries = << >>
    /\ connectors = << >>
    /\ conn_cnt = 0
    /\ inits = 0
    /\ file = None
    /\ last = [op |-> "init"]

\* the driver has a conflict graph and no call has raised
Built == last.op # "init" /\ last.exc = ""

\* the driver goes on calling set_channel and update
CanCall == Built /\ calls < MaxCalls

\* ConflictGraph(network_graph, interference_model)
Construct(graph, ord, model, db, cgord) ==
    /\ last.op = "init"
    /\ \E r \in {ConflictGraph_init(graph, ord, "g1", model, co_cache, db, cgord)} :
        /\ network_graph' = graph
        /\ nw_order' = ord
        /\ database' = db
        /\ conflict_graph' = r.cg
        /\ co_cache' = r.cache
        /\ last' = [op |-> "ConflictGraph", exc |-> r.exc]
        /\ UNCHANGED <<G, pending, calls, file, inits,
                   conn_cnt, connectors, discoveries>>

\* v.set_channel(channel) for a vertex v of the conflict graph
SetChannel(v, channel) ==
    /\ CanCall
    /\ \E r \in {set_channel(conflict_graph, co_cache, database, network_graph,
                            nw_order, v, channel)} :
        /\ calls' = calls + 1
        /\ network_graph' = r.graph
        /\ conflict_graph' = r.cg
        /\ co_cache' = r.cache
        /\ last' = [op |-> "set_channel", v |-> v, channel |-> channel,
                    exc |-> r.exc]
        /\ UNCHANGED <<G, pending, nw_order, database, file, inits,
                   conn_cnt, connectors, discoveries>>

\* conflict_graph.update(graph): graph is the object ref, enumerated in the
\* order ord
Update(graph, ord, ref, tfirst) ==
    /\ CanCall
    /\ \E r \in {update(conflict_graph, co_cache, database, network_graph, nw_order,
                       graph, ord, ref, tfirst)} :
        /\ calls' = calls + 1
        /\ network_graph' = IF r.found THEN graph ELSE network_graph
        /\ nw_order' = IF r.found THEN ord ELSE nw_order
        /\ conflict_graph' = r.cg
        /\ co_cache' = r.cache
        /\ last' = [op |-> "update", ref |-> ref, links |-> UndirectedEdges(graph),
                    found |-> r.found, exc |-> r.exc]
        /\ UNCHANGED <<G, pending, database, file, inits,
                   conn_cnt, connectors, discoveries>>

\* conflict_graph.get_interference_sum()
GetInterferenceSum ==
    /\ Built
    /\ last' = [op |-> "get_interference_sum", exc |-> "",
                value |-> get_interference_sum(conflict_graph)]
    /\ UNCHANGED <<G, pending, network_graph, nw_order, co_cache, database,
                   conflict_graph, calls, file, inits,
                   conn_cnt, connectors, discoveries>>

\* the vertices update(graph) adds
NewVertices(graph, ord) ==
    LET c1 == add_link_vertices(conflict_graph,
                SetToSeq(appeared_edges(get_edges(network_graph, nw_order, FALSE),
                                        get_edges(graph, ord, FALSE))))
    IN  get_vertices(c1) \ get_vertices(conflict_graph)

NextCG ==
    \/ /\ last.op = "init"
       /\ \E graph \in CGGraphs, ord \in {VertexNames, ReverseNames} :
          \E model \in InterferenceModels :
              \E db \in (IF model = "co" THEN CGDatabases ELSE {FullDatabase}) :
                  \E cgord \in Orders(1..Cardinality(DOMAIN get_edges(graph, ord, FALSE))) :
                      Construct(graph, ord, model, db, cgord)
    \/ \E v \in get_vertices(conflict_graph), channel \in Channels :
          SetChannel(v, channel)
    \/ /\ CanCall
       /\ \E graph \in UpdateGraphs, ord \in {VertexNames, ReverseNames} :
          \E tfirst \in SUBSET NewVertices(graph, ord) :
              Update(graph, ord, CHOOSE ref \in GraphRefs : ref # conflict_graph.network_ref,
                     tfirst)
    \/ Update(network_graph, nw_order, conflict_graph.network_ref, {})
    \/ GetInterferenceSum

SpecCG == InitCG /\ [][NextCG]_vars


(***************************************************************************)
(* The conflict graph's weights, vertices and sum (SpecCG).                *)
(***************************************************************************)
CGVertices == get_vertices(conflict_graph)

\* the link of a vertex, as the set of its two nodes
LinkNodes(v) == Ends(conflict_graph.nw_graph_edge[v])

\* the stored weight of a pair of vertices
Weight(a, b) == get_edge_value(conflict_graph, <<a, b>>)

\* x and y are numbers and x == y
NumEq(x, y) ==
    /\ x.t \in {"int", "float"}
    /\ y.t \in {"int", "float"}
    /\ Sixtieths(x) = Sixtieths(y)

\* what the interference model gives for the links of a and b, in this
\* order, on the bound network graph
Interference(a, b) ==
    get_interference(conflict_graph.interference_model, co_cache, database,
                     network_graph, nw_order,
                     conflict_graph.nw_graph_edge[a], conflict_graph.nw_graph_edge[b])

\* C2: after the construction and after set_channel and update calls that
\* returned, the stored weight of every pair (a, b) of vertices is what
\* get_interference gives for (a.link, b.link) on the bound network graph,
\* and the weight of (a, a) is 0
C2_WeightsAreInterference ==
    Built =>
        \A a \in CGVertices, b \in CGVertices :
            /\ Interference(a, b).exc = ""
            /\ NumEq(Weight(a, b), Interference(a, b).value)
            /\ NumEq(Weight(a, a), PyInt(0))

\* C3: after a set_channel that returned, every pair has the weight that a
\* full update_edges() on the same state gives it
C3_UpdateEdgeIsUpdateEdges ==
    (last.op = "set_channel" /\ last.exc = "") =>
        LET full == update_edges(conflict_graph, co_cache, database,
                                 network_graph, nw_order)
        IN  /\ full.exc = ""
            /\ \A a \in CGVertices, b \in CGVertices :
                    NumEq(Weight(a, b), get_edge_value(full.cg, <<a, b>>))

C5_VerticesMirrorLinks ==
    (last.op \in {"ConflictGraph", "update"} /\ last.exc = "") =>
        /\ \A l \in DOMAIN UndirectedEdges(network_graph) :
                Cardinality({v \in CGVertices : LinkNodes(v) = l}) = 1
        /\ \A v \in CGVertices : LinkNodes(v) \in DOMAIN UndirectedEdges(network_graph)
        /\ (last.op = "update" /\ last.found) =>
                /\ conflict_graph.network_ref = last.ref
                /\ UndirectedEdges(network_graph) = last.links

\* an update that bound a graph reporting its links the other way round
\* and replaced the three vertices
C5_Witness ==
    /\ last.op = "update"
    /\ last.exc = ""
    /\ last.found
    /\ conflict_graph.network_ref = "g2"
    /\ nw_order = ReverseNames
    /\ Cardinality(CGVertices) = 3
    /\ \A v \in CGVertices :
            conflict_graph.nw_graph_edge[v] \in Links(network_graph, nw_order)

\* C6: an update(g) with a graph g that has the undirected edges of the
\* bound graph, here with the same values too, returns and changes neither
\* the vertices, nor a weight, nor the bound graph
C6_UpdateSameEdgesIsNoOp ==
    [][(last'.op = "update" /\ calls' # calls
            /\ last'.links = UndirectedEdges(network_graph)) =>
          /\ last'.exc = ""
          /\ conflict_graph' = conflict_graph
          /\ network_graph' = network_graph]_vars

\* the sum of the weights of a set of vertex pairs, in sixtieths
RECURSIVE WeightSum(_)
WeightSum(pairs) ==
    IF pairs = {} THEN 0
    ELSE LET p == CHOOSE q \in pairs : TRUE
         IN  Sixtieths(Weight(p[1], p[2])) + WeightSum(pairs \ {p})

\* every unordered pair of vertices once
VertexPairs == {p \in CGVertices \X CGVertices : p[1] <= p[2]}

\* C7: get_interference_sum() changes nothing and returns the sum of the
\* weights over the unordered pairs of vertices, each pair once; with the
\* binary two-hop model the sum is the number of pairs of distinct links on
\* one channel with an endpoint pair fewer than two hops apart
C7_InterferenceSum ==
    [][last'.op = "get_interference_sum" =>
          /\ UNCHANGED <<network_graph, nw_order, co_cache, database,
                         conflict_graph>>
          /\ Sixtieths(last'.value) = WeightSum(VertexPairs)
          /\ conflict_graph.interference_model = "two_hop" =>
                last'.value = PyInt(Cardinality(
                    {p \in VertexPairs :
                        /\ p[1] # p[2]
                        /\ LinkChannel(conflict_graph.nw_graph_edge[p[1]])
                              = LinkChannel(conflict_graph.nw_graph_edge[p[2]])
                        /\ Near(conflict_graph.nw_graph_edge[p[1]],
                                conflict_graph.nw_graph_edge[p[2]])}))]_vars

\* three links, two of them on one channel, the third on another: sum 1
C7_Witness ==
    /\ last.op = "get_interference_sum"
    /\ conflict_graph.interference_model = "two_hop"
    /\ Cardinality(CGVertices) = 3
    /\ last.value = PyInt(1)

\* the renamings of the nodes: none, a..e to e..a, and each node to the next
Renamings ==
    {[n \in Nodes |-> n],
     [n \in Nodes |-> ReverseNames[NodeId(n)]],
     [n \in Nodes |-> VertexNames[(NodeId(n) % Len(VertexNames)) + 1]]}

\* the network graph with the node n named f[n]
Renamed(graph, f) ==
    LET edges == get_edges(graph, VertexNames, FALSE)
    IN  NetworkGraph([e \in {<<f[d[1]], f[d[2]]>> : d \in DOMAIN edges} |->
                        edges[CHOOSE d \in DOMAIN edges : e = <<f[d[1]], f[d[2]]>>]])

\* the measurements with the node n named f[n]
RenamedRows(db, f) ==
    [db EXCEPT !.nodes = [i \in DOMAIN db.nodes |->
                            [db.nodes[i] EXCEPT !.name = f[db.nodes[i].name]]]]

\* C23: the ConflictGraph built for the network graph with its nodes renamed
\* by a bijection, whatever the order in which the nodes and the vertices
\* are then enumerated, has the get_interference_sum() of the one built for
\* the network graph
C23_RenamingKeepsSum ==
    (last.op = "get_interference_sum" /\ calls = 0) =>
        \A f \in Renamings, ord \in {VertexNames, ReverseNames},
           cgord \in Orders(CGVertices) :
            \E r \in {ConflictGraph_init(Renamed(network_graph, f), ord, "g1",
                                         conflict_graph.interference_model,
                                         EmptyCache, RenamedRows(database, f), cgord)} :
                /\ r.exc = ""
                /\ NumEq(get_interference_sum(r.cg), last.value)

(***************************************************************************)
(* SpecCO: one process calling get_interference of the channel-occupancy   *)
(* model several times.                                                    *)
(***************************************************************************)
\* what the two raw queries return: the full tables; no row at all; rows of
\* CORResultsKernel and no node; a first measurement row of a node that the
\* node table does not hold
CODatabases ==
    {FullDatabase,
     [nodes |-> << >>, results |-> << >>],
     [nodes |-> << >>, results |-> FullDatabase.results],
     [nodes |-> NodeRows,
      results |-> <<[id_listener |-> Len(NodeRows) + 1, id_sender |-> 1, cot_max |-> 3]>>
                    \o FullDatabase.results]}

InitCO ==
    /\ G = EmptyGraph
    /\ pending = FALSE
    /\ network_graph \in {g \in PathGraphs : Cardinality(Links(g, VertexNames)) = 2}
    /\ nw_order = VertexNames
    /\ database \in CODatabases
    /\ co_cache = EmptyCache
    /\ conflict_graph = None
    /\ calls = 0
    /\ discoveries = << >>
    /\ connectors = << >>
    /\ conn_cnt = 0
    /\ inits = 0
    /\ file = None
    /\ last = [op |-> "init"]

\* co.get_interference(network_graph, e1, e2); calls counts these calls
COGetInterference(e1, e2) ==
    /\ calls < MaxCalls
    /\ \E r \in {co_get_interference(co_cache, database, network_graph, nw_order, e1, e2)} :
        /\ co_cache' = r.cache
        /\ last' = [op |-> "get_interference", model |-> "co",
                    e1 |-> e1, e2 |-> e2, exc |-> r.exc, value |-> r.value]
    /\ calls' = calls + 1
    /\ inits' = IF runs_init(co_cache) THEN inits + 1 ELSE inits
    /\ UNCHANGED <<G, pending, network_graph, nw_order, database, conflict_graph,
                   file, conn_cnt, connectors, discoveries>>

NextCO ==
    \E e1 \in Links(network_graph, nw_order), e2 \in Links(network_graph, nw_order) :
        COGetInterference(e1, e2)

SpecCO == InitCO /\ [][NextCO]_vars

\* C24: over the channel-occupancy get_interference calls of one process
\* init() runs in the first call and in no later one, whatever the two
\* queries return and whether or not the first init() raised
C24_LoadsOnce == inits = (IF calls = 0 THEN 0 ELSE 1)

(***************************************************************************)
(* The two text formats of a Graph.  A text is the sequence of its         *)
(* characters; the vertex names of the model have one character.           *)
(***************************************************************************)
\* str(vertex)
py_str_name(v) == <<v>>

\* the vertex that a text read from a file names
Name(s) == IF Len(s) = 1 THEN s[1] ELSE "?"

\* str(value) of an edge value
py_str_value(v) == IF v.t = "int" THEN py_str(v.n).s ELSE v.s

\* c * n
Repeat(c, n) == [i \in 1..n |-> c]

\* s.rjust(width)
rjust(s, width) == IF Len(s) >= width THEN s ELSE Repeat(" ", width - Len(s)) \o s

\* the texts of a sequence, one after the other
RECURSIVE Join(_)
Join(ts) == IF ts = << >> THEN << >> ELSE Head(ts) \o Join(Tail(ts))

\* the k-th smallest element of a set of numbers
Nth(P, k) == CHOOSE e \in P : Cardinality({x \in P : x <= e}) = k

\* s.split(sep) for a separator of one character
split(s, sep) ==
    LET P == {i \in 1..Len(s) : s[i] = sep}
        n == Cardinality(P) + 1
    IN  [k \in 1..n |->
            SubSeq(s, IF k = 1 THEN 1 ELSE Nth(P, k - 1) + 1,
                      IF k = n THEN Len(s) ELSE Nth(P, k) - 1)]

\* s.strip(): s without the whitespace at its ends
strip(s) ==
    LET P == {i \in 1..Len(s) : s[i] \notin {" ", "\t", "\n", "\r", "\f"}}
    IN  IF P = {} THEN << >> ELSE SubSeq(s, Nth(P, 1), Nth(P, Cardinality(P)))

\* the lines a file object gives, each with the newline that ends it
file_lines(text) ==
    LET P == {i \in 1..Len(text) : text[i] = "\n"} \cup
             (IF text = << >> THEN {} ELSE {Len(text)})
    IN  [k \in 1..Cardinality(P) |->
            SubSeq(text, IF k = 1 THEN 1 ELSE Nth(P, k - 1) + 1, Nth(P, k))]

\* Graph._get_edge_value_as_text(edge)
get_edge_value_as_text(g, edge) ==
    IF ~Truthy(g.values[edge[1]][edge[2]]) THEN << >>
    ELSE py_str_value(g.values[edge[1]][edge[2]])

\* Graph.get_adjacency_matrix(): ord is the order of self.values.keys()
get_adjacency_matrix(g, ord) ==
    LET vertices == Enum(DOMAIN g.values, ord)
        lens     == {4} \cup {Len(py_str_name(vertices[i])) : i \in DOMAIN vertices}
        maxlen   == CHOOSE m \in lens : \A l \in lens : l <= m
        heads    == rjust(<< >>, maxlen) \o <<" ", "|">> \o
                    Join([i \in DOMAIN vertices |->
                            <<" ">> \o rjust(py_str_name(vertices[i]), maxlen) \o <<" ", "|">>])
        rule     == Repeat("-", maxlen) \o <<"-", "+">> \o
                    Join([i \in DOMAIN vertices |->
                            <<"-">> \o Repeat("-", maxlen) \o <<"-", "+">>])
        \* str(v1).ljust(maxlen)
        name(v1) == py_str_name(v1) \o Repeat(" ", maxlen - Len(py_str_name(v1)))
        row(v1)  == name(v1) \o <<" ", "|">> \o
                    Join([j \in DOMAIN vertices |->
                            <<" ">> \o rjust(get_edge_value_as_text(g, <<v1, vertices[j]>>), maxlen)
                                \o <<" ", "|">>])
        \* s[:-1] + "\n"
        line(s)  == SubSeq(s, 1, Len(s) - 1) \o <<"\n">>
    IN  line(heads) \o line(rule) \o
        Join([i \in DOMAIN vertices |-> line(row(vertices[i]))])

\* Graph.get_graphviz() with the default label: ord is the order of
\* self.values.keys() and of the set left_vertices
get_graphviz(g, ord) ==
    LET pairs   == TrianglePairs(Enum(DOMAIN g.values, ord))
        line(e) == IF Truthy(get_edge_value(g, e))
                   THEN <<"\t", "\"">> \o py_str_name(e[1]) \o
                        <<"\"", " ", "-", "-", " ", "\"">> \o py_str_name(e[2]) \o
                        <<"\"", " ">> \o
                        <<"[", "l", "a", "b", "e", "l", " ", "=", " ", "\"">> \o
                        py_str_value(get_edge_value(g, e)) \o <<"\"", "]", "\n">>
                   ELSE << >>
    IN  <<"G", "r", "a", "p", "h", " ", "G", " ", "{", "\n">> \o
        Join([i \in DOMAIN pairs |-> line(pairs[i])]) \o <<"}", "\n">>

\* what write_to_file(file_name, use_graphviz) writes
write_to_file(g, ord, use_graphviz) ==
    IF use_graphviz THEN get_graphviz(g, ord) ELSE get_adjacency_matrix(g, ord)

\* edge_re.match(line) for \s*"(.+)" -- "(.+)" \[label = "(.+)"\] on a line
\* with no quotation mark inside a name or a value: the three groups are
\* the texts between the quotation marks
edge_re_match(line) ==
    LET parts == split(line, "\"")
    IN  IF /\ Len(parts) = 7
           /\ strip(parts[1]) = << >>
           /\ parts[3] = <<" ", "-", "-", " ">>
           /\ parts[5] = <<" ", "[", "l", "a", "b", "e", "l", " ", "=", " ">>
           /\ parts[7] # << >> /\ parts[7][1] = "]"
           /\ \A k \in {2, 4, 6} : parts[k] # << >> /\ "\n" \notin {parts[k][i] : i \in DOMAIN parts[k]}
        THEN [matched |-> TRUE, v1 |-> parts[2], v2 |-> parts[4], value |-> parts[6]]
        ELSE [matched |-> FALSE]

\* the loop of read_from_dotfile over the lines of the file
RECURSIVE read_dot_lines(_, _)
read_dot_lines(g, lines) ==
    IF lines = << >> THEN g
    ELSE LET edge_ma == edge_re_match(Head(lines))
         IN  IF edge_ma.matched
             THEN LET v1 == Name(edge_ma.v1)
                      v2 == Name(edge_ma.v2)
                  IN  read_dot_lines(
                          set_edge_value(add_vertex(add_vertex(g, v1), v2), <<v1, v2>>,
                                         PyStr(edge_ma.value), FALSE),
                          Tail(lines))
             ELSE read_dot_lines(g, Tail(lines))

\* Graph.read_from_dotfile(file_name): the graph the object holds afterwards
read_from_dotfile(text) ==
    update_distances(read_dot_lines(EmptyGraph, file_lines(text)))

\* the cells of one row of the matrix: set_edge_value((v1, v2), value, False)
\* for every v2 of the first line, a blank cell being None
RECURSIVE read_row(_, _, _, _, _)
read_row(g, vertices, v1, row, j) ==
    IF j > Len(vertices) THEN g
    ELSE LET \* vertices.index(v2)
             index == CHOOSE i \in DOMAIN vertices :
                        /\ vertices[i] = vertices[j]
                        /\ \A k \in 1..(i - 1) : vertices[k] # vertices[j]
             value == strip(row[index])
         IN  read_row(set_edge_value(g, <<v1, vertices[j]>>,
                                     IF value = << >> THEN None ELSE PyStr(value), FALSE),
                      vertices, v1, row, j + 1)

\* the lines after the second one
RECURSIVE read_rows(_, _, _)
read_rows(g, vertices, lines) ==
    IF lines = << >> THEN g
    ELSE LET row == split(Head(lines), "|")
         IN  read_rows(read_row(g, vertices, Name(strip(row[1])), Tail(row), 1),
                       vertices, Tail(lines))

\* Graph.read_from_file(file_name) on the object self: the graph the object
\* holds afterwards
read_from_file(self, text) ==
    LET lines    == file_lines(text)
        cells    == Tail(split(lines[1], "|"))
        vertices == [i \in DOMAIN cells |-> Name(strip(cells[i]))]
    IN  IF lines = << >> THEN update_distances(self)
        ELSE update_distances(
                read_rows(add_vertices(EmptyGraph, vertices), vertices,
                          SubSeq(lines, 3, Len(lines))))

(***************************************************************************)
(* SpecFile: a driver that writes a Graph to a file in one of the two      *)
(* formats and reads the file into a new Graph.                            *)
(***************************************************************************)
\* Graph(V), a batch of set_edge_value(e, value, False), then
\* update_distances(): every graph of up to three vertices, vertices with
\* no edge included.  An edge has one of three values: two ints, one of
\* them wider than a column of the matrix, and a str.
FileGraphs ==
    UNION {{update_distances(set_edge_values(NewGraph(V), chan, SetToSeq(DOMAIN chan))) :
                chan \in UNION {[E -> {PyInt(40), PyInt(12345), PyStr(<<"1">>)}] :
                                    E \in SUBSET ({<<"a", "b">>, <<"b", "c">>, <<"a", "c">>}
                                                    \cap (V \X V))}} :
           V \in SUBSET Vertices}

InitFile ==
    /\ G \in FileGraphs
    /\ pending = FALSE
    /\ network_graph = EmptyGraph
    /\ nw_order = << >>
    /\ co_cache = << >>
    /\ database = << >>
    /\ conflict_graph = None
    /\ calls = 0
    /\ discoveries = << >>
    /\ connectors = << >>
    /\ conn_cnt = 0
    /\ inits = 0
    /\ file = None
    /\ last = [op |-> "init"]

\* G.write_to_file(file_name, use_graphviz)
WriteToFile(ord, use_graphviz) ==
    /\ file' = [use_graphviz |-> use_graphviz, text |-> write_to_file(G, ord, use_graphviz)]
    /\ last' = [op |-> "write_to_file", exc |-> ""]
    /\ UNCHANGED <<G, pending, network_graph, nw_order, co_cache, database,
                   conflict_graph, calls, inits,
                   conn_cnt, connectors, discoveries>>

\* Graph().read_from_file(file_name) of the file written: the graph read
\* is the outcome
ReadFromFile ==
    /\ file # None
    /\ last' = [op |-> "read_from_file", exc |-> "",
                value |-> read_from_file(EmptyGraph, file.text)]
    /\ UNCHANGED <<G, pending, network_graph, nw_order, co_cache, database,
                   conflict_graph, calls, file, inits,
                   conn_cnt, connectors, discoveries>>

\* Graph().read_from_dotfile(file_name) of the file written
ReadFromDotfile ==
    /\ file # None
    /\ last' = [op |-> "read_from_dotfile", exc |-> "",
                value |-> read_from_dotfile(file.text)]
    /\ UNCHANGED <<G, pending, network_graph, nw_order, co_cache, database,
                   conflict_graph, calls, file, inits,
                   conn_cnt, connectors, discoveries>>

NextFile ==
    \/ \E ord \in Orders(Vertices), use_graphviz \in BOOLEAN : WriteToFile(ord, use_graphviz)
    \/ ReadFromFile
    \/ ReadFromDotfile

SpecFile == InitFile /\ [][NextFile]_vars

\* the undirected edges of g: the pairs with a truthy value
EdgeSet(g) ==
    {{p[1], p[2]} : p \in {q \in get_vertices(g) \X get_vertices(g) :
                                Truthy(get_edge_value(g, q))}}

\* last is the read, by the reader of its format, of the file G was
\* written to
ReadBack ==
    \/ last.op = "read_from_file" /\ ~file.use_graphviz
    \/ last.op = "read_from_dotfile" /\ file.use_graphviz

\* C22: a graph written with write_to_file and read back with the reader of
\* the format has the undirected edges of the original and, for every two
\* vertices of the original, also those with no edge, their distance
C22_RoundTrip ==
    ReadBack =>
        /\ EdgeSet(last.value) = EdgeSet(G)
        /\ \A a \in get_vertices(G), b \in get_vertices(G) :
                /\ a \in get_vertices(last.value)
                /\ b \in get_vertices(last.value)
                /\ get_distance(last.value, a, b) = get_distance(G, a, b)

(***************************************************************************)
(* SpecEtx: topology discovery (topology/etx.py) under the running         *)
(* reactor.  A discovery is [called, result, graph]: how often callback()  *)
(* was called on its Deferred, the graph object (the number of its         *)
(* discovery) the first call passed, and its Graph.  A connector is        *)
(* [host, discovery, recursive, state, timeout]: the fields of the factory *)
(* of one _query_host call, the state of its connector and the state of    *)
(* its timeout call.  The lines received are well-formed and name          *)
(* resolvable nodes; this node is a, and every link is on channel 1.       *)
(***************************************************************************)
\* the bound on the number of get_network_graph() calls
MaxDiscoveries == 2

\* the bound on the number of connections of all discoveries
MaxConnections == 4

\* a finished() that fires the callback whatever conn_cnt is
finished_always(cnt, ds, c) ==
    [conn_cnt |-> cnt - 1,
     discoveries |->
        [ds EXCEPT ![c.discovery] =
            [@ EXCEPT !.called = @ + 1,
                      !.result = IF ds[c.discovery].called = 0 THEN c.discovery ELSE @]]]

\* EtxIpcFactory.finished() of the factory of connector c: conn_cnt and
\* the discoveries afterwards.  A second callback() on a Deferred raises
\* AlreadyCalledError and leaves its result.
finished(cnt, ds, c) ==
    [conn_cnt |-> cnt - 1,
     discoveries |->
        IF cnt - 1 = 0
        THEN [ds EXCEPT ![c.discovery] =
                [@ EXCEPT !.called = @ + 1,
                          !.result = IF ds[c.discovery].called = 0 THEN c.discovery ELSE @]]
        ELSE ds]

\* _query_host(host, graph, deferred, recursive): the factory, connectTCP
\* with its startedConnecting, and the timeout call
query_host(cs, host, discovery, recursive) ==
    Append(cs, [host |-> host, discovery |-> discovery, recursive |-> recursive,
                state |-> "connecting", timeout |-> "pending"])

InitEtx ==
    /\ G = EmptyGraph
    /\ pending = FALSE
    /\ network_graph = EmptyGraph
    /\ nw_order = << >>
    /\ co_cache = << >>
    /\ database = << >>
    /\ conflict_graph = None
    /\ calls = 0
    /\ inits = 0
    /\ file = None
    /\ conn_cnt = 0
    /\ connectors = << >>
    /\ discoveries = << >>
    /\ last = [op |-> "init"]

\* get_network_graph(): callWhenRunning calls _query_host at once
GetNetworkGraph ==
    /\ Len(discoveries) < MaxDiscoveries
    /\ Len(connectors) < MaxConnections
    /\ discoveries' = Append(discoveries, [called |-> 0, result |-> 0, graph |-> EmptyGraph])
    /\ connectors' = query_host(connectors, "a", Len(discoveries) + 1, TRUE)
    /\ conn_cnt' = conn_cnt + 1
    /\ last' = [op |-> "get_network_graph", exc |-> "", value |-> Len(discoveries) + 1]
    /\ UNCHANGED <<G, pending, network_graph, nw_order, co_cache, database,
                   conflict_graph, calls, inits, file>>

\* EtxIpcProtocol.connectionMade of connector i
ConnectionMade(i) ==
    /\ connectors[i].state = "connecting"
    /\ connectors' = [connectors EXCEPT ![i].state = "connected", ![i].timeout = "cancelled"]
    /\ UNCHANGED <<G, pending, network_graph, nw_order, co_cache, database,
                   conflict_graph, calls, inits, file, conn_cnt, discoveries, last>>

\* EtxIpcProtocol.lineReceived of connector i, for a line that names the
\* node neighbor
LineReceived(i, neighbor) ==
    LET c          == connectors[i]
        graph      == discoveries[c.discovery].graph
        g1         == add_vertex(add_vertex(graph, c.host), neighbor)
        edge_value == IF Truthy(get_edge_value(g1, <<c.host, neighbor>>))
                      THEN get_edge_value(g1, <<c.host, neighbor>>)
                      ELSE [t |-> "set", elems |-> {}]
    IN  /\ c.state = "connected"
        /\ neighbor # c.host
        /\ c.recursive => Len(connectors) < MaxConnections
        /\ discoveries' =
              [discoveries EXCEPT ![c.discovery].graph =
                  set_edge_value(g1, <<c.host, neighbor>>,
                                 [edge_value EXCEPT !.elems = @ \cup {1}], TRUE)]
        /\ connectors' = IF c.recursive
                         THEN query_host(connectors, neighbor, c.discovery, FALSE)
                         ELSE connectors
        /\ conn_cnt' = IF c.recursive THEN conn_cnt + 1 ELSE conn_cnt
        /\ UNCHANGED <<G, pending, network_graph, nw_order, co_cache, database,
                       conflict_graph, calls, inits, file, last>>

\* _timed_out(port) of connector i, whose timeout call connectionMade has
\* not cancelled: port.disconnect() stops a connector that is connecting,
\* which fails at once, and does nothing to one that is disconnected
TimedOut(i) ==
    /\ connectors[i].timeout = "pending"
    /\ connectors' = [connectors EXCEPT
                        ![i].timeout = "called",
                        ![i].state = IF @ = "connecting" THEN "disconnected" ELSE @]
    /\ \E r \in {IF connectors[i].state = "connecting"
                 THEN finished(conn_cnt, discoveries, connectors[i])
                 ELSE [conn_cnt |-> conn_cnt, discoveries |-> discoveries]} :
          conn_cnt' = r.conn_cnt /\ discoveries' = r.discoveries
    /\ UNCHANGED <<G, pending, network_graph, nw_order, co_cache, database,
                   conflict_graph, calls, inits, file, last>>

\* EtxIpcFactory.clientConnectionFailed of connector i
ClientConnectionFailed(i) ==
    /\ connectors[i].state = "connecting"
    /\ connectors' = [connectors EXCEPT ![i].state = "disconnected"]
    /\ \E r \in {finished(conn_cnt, discoveries, connectors[i])} :
          conn_cnt' = r.conn_cnt /\ discoveries' = r.discoveries
    /\ UNCHANGED <<G, pending, network_graph, nw_order, co_cache, database,
                   conflict_graph, calls, inits, file, last>>

\* EtxIpcFactory.clientConnectionLost of connector i
ClientConnectionLost(i) ==
    /\ connectors[i].state = "connected"
    /\ connectors' = [connectors EXCEPT ![i].state = "disconnected"]
    /\ \E r \in {finished(conn_cnt, discoveries, connectors[i])} :
          conn_cnt' = r.conn_cnt /\ discoveries' = r.discoveries
    /\ UNCHANGED <<G, pending, network_graph, nw_order, co_cache, database,
                   conflict_graph, calls, inits, file, last>>

NextEtx ==
    \/ GetNetworkGraph
    \/ \E i \in DOMAIN connectors : ConnectionMade(i)
    \/ \E i \in DOMAIN connectors, neighbor \in Vertices : LineReceived(i, neighbor)
    \/ \E i \in DOMAIN connectors : TimedOut(i)
    \/ \E i \in DOMAIN connectors : ClientConnectionFailed(i)
    \/ \E i \in DOMAIN connectors : ClientConnectionLost(i)

SpecEtx == InitEtx /\ [][NextEtx]_vars

\* the connectors opened for discovery d
ConnectorsOf(d) == {i \in DOMAIN connectors : connectors[i].discovery = d}

\* C26: under every interleaving of the events of one or two discoveries,
\* the Deferred of a discovery is fired at most once, with the Graph of
\* that discovery, and only when every connection opened for the discovery
\* has failed or been lost
C26_FiredOnceWhenDone ==
    \A d \in DOMAIN discoveries :
        /\ discoveries[d].called <= 1
        /\ discoveries[d].called = 1 =>
              /\ discoveries[d].result = d
              /\ \A i \in ConnectorsOf(d) : connectors[i].state = "disconnected"

\* two discoveries at the same time, one of them with a queried neighbor
\* whose line is in its graph: one Deferred is fired
C26_Witness ==
    /\ Len(discoveries) = 2
    /\ \E d \in DOMAIN discoveries :
          /\ discoveries[d].called = 1
          /\ \E i \in ConnectorsOf(d) : ~connectors[i].recursive
          /\ Cardinality(get_vertices(discoveries[d].graph)) = 3
          /\ \E i \in ConnectorsOf(d), j \in ConnectorsOf(3 - d) :
                i < j /\ connectors[j].timeout = "called"

=============================================================================
